---- MODULE Spec2Model ----
(***************************************************************************)
(* SignalK-Orientation: the sampling-and-republishing pipeline.            *)
(*                                                                         *)
(*   OrientationSensor   owns the SensorFusion engine and the periodic     *)
(*                       ReadAndProcessSensors() task                      *)
(*   OrientationValues   one scalar parameter per instance, ReportValue()  *)
(*   AttitudeValues      yaw/pitch/roll record, Update()                   *)
(*   MagCalValues        magnetic calibration record, Update()             *)
(*   SKOutput<Attitude>, SKOutput<MagCal>   as_signalk() serialisation     *)
(*                                                                         *)
(* The SensorFusion library is external: its fused state is a validity bit *)
(* and a sample number, and every Get...() query is a function of that     *)
(* state.  Floats are integers, JSON values are tagged tuples.  The        *)
(* history variables record what the last step did.                        *)
(*                                                                         *)
(* The event loop (loop() calls event_loop()->tick()) is modelled three    *)
(* ways: callbacks in any order with no clock (SpecScalar ... SpecPoll),   *)
(* callbacks run when due on a millisecond clock (SpecTimed, SpecReconfig) *)
(* and callbacks followed statement by statement (SpecSteps).              *)
(***************************************************************************)
EXTENDS Integers, Sequences, FiniteSets, TLC

\* ------------------------------------------------------------------ bounds
NumSamples == 1      \* fused samples are numbered 0..NumSamples
MaxCmd == 2          \* save_mag_cal values supplied by configuration: -1..MaxCmd
MaxSets == 2         \* command-set events in one behaviour
MaxThrottle == 2     \* cap of the debug counter throttlePrint_
MaxTicks == 2        \* fusion ticks in a behaviour followed statement by statement
AngleSteps == 8      \* angles are whole steps, AngleSteps of them to the full turn
MaxSamples == 3      \* entries of a lookup table
MaxOutput == 3       \* outputs of a lookup table entry are 0..MaxOutput
WindowMs == 1000     \* the scheduler's clock runs from 0 to WindowMs

\* ------------------------------------------------------- program constants
DefaultReportIntervalMs == 100
SlowReportIntervalMs == 4000
FUSION_HZ == 40
kFusionIntervalMs == 1000 \div FUSION_HZ

Samples == 0..NumSamples
CmdInputs == (0 - 1)..MaxCmd
Intervals == {DefaultReportIntervalMs, SlowReportIntervalMs}

Readers == {"scalar", "attitude", "magcal"}
CmdReaders == {"scalar", "attitude"}
Tasks == {"fusion"} \cup Readers

\* ------------------------------------------------- SensorFusion (external)
Getters ==
  << "GetHeadingRadians", "GetRollRadians", "GetPitchRadians",
     "GetAccelXMPerSS", "GetAccelYMPerSS", "GetAccelZMPerSS",
     "GetTurnRateRadPerS", "GetPitchRateRadPerS", "GetRollRateRadPerS",
     "GetTemperatureK", "GetMagneticFitError", "GetMagneticFitErrorTrial",
     "GetMagneticCalSolver", "GetMagneticInclinationRad", "GetMagneticBMag",
     "GetMagneticBMagTrial", "GetMagneticNoiseCovariance" >>

GetterNames == { Getters[i] : i \in 1..Len(Getters) }

GetterIndex(g) == CHOOSE i \in 1..Len(Getters) : Getters[i] = g

\* The reading of query g in fused sample k: sample 0 is the all-zero
\* reading, every other sample gives each query its own non-zero value.
Reading(g, k) ==
  IF k = 0 THEN 0 ELSE 100 * (GetterIndex(g) + Len(Getters) * (k - 1))

FusedStates == [valid : BOOLEAN, sample : Samples]

Get(g, f) == Reading(g, f.sample)

IsDataValid(f) == f.valid

\* --------------------------------------------------------- data structures
OrientationValType ==
  { "kCompassHeading", "kYaw", "kPitch", "kRoll", "kAttitude",
    "kAccelerationX", "kAccelerationY", "kAccelerationZ",
    "kRateOfTurn", "kRateOfPitch", "kRateOfRoll", "kTemperature",
    "kMagCalFitInUse", "kMagCalFitTrial", "kMagCalAlgorithmSolver",
    "kMagInclination", "kMagFieldMagnitude", "kMagFieldMagnitudeTrial",
    "kMagNoiseCovariance" }

Attitude(v, y, p, r) ==
  [is_data_valid |-> v, yaw |-> y, pitch |-> p, roll |-> r]

MagCal(v, incl, ferr, ferrt, bmag, bmagt, noise, solver) ==
  [is_data_valid |-> v, magnetic_inclination |-> incl,
   cal_fit_error |-> ferr, cal_fit_error_trial |-> ferrt,
   mag_field_magnitude |-> bmag, mag_field_magnitude_trial |-> bmagt,
   mag_noise_covariance |-> noise, mag_solver |-> solver]

VARIABLES
  fused,               \* SensorFusion: state computed by the last RunFusion()
  installed,           \* TRUE iff every InstallSensor() and Begin() succeeded
  fusion_task,         \* TRUE iff ReadAndProcessSensors is on the event loop
  installs,            \* number of sensor installations performed
  log_,                \* lines written with debugE
  value_type_,         \* OrientationValues::value_type_
  throttlePrint_,      \* OrientationValues::throttlePrint_
  save_mag_cal_,       \* save_mag_cal_ of the OrientationValues and AttitudeValues
  report_interval_ms_, \* report_interval_ms_ of each reader
  attitude_,           \* AttitudeValues::attitude_
  mag_cal_,            \* MagCalValues::mag_cal_
  sk_attitude,         \* ValueProducer<Attitude>::output of SKOutput<Attitude>
  sk_magcal,           \* ValueProducer<MagCal>::output of SKOutput<MagCal>
  notified,            \* outputs that have received a value through set_input
  msg_attitude,        \* "value" object of the last attitude message
  msg_magcal,          \* "value" object of the last calibration message
  ret,                 \* value returned by the last ReportValue()
  requested,           \* history: save_mag_cal of a reader's last set_configuration
  polled,              \* history: reader polled since its last set_configuration
  nSet,                \* history: persist/discard requests set, per reader
  nIssued,             \* history: InjectCommand calls per reader
  last,                \* history: the step just taken
  calls,               \* history: store queries made by the step just taken
  fresh,               \* history: polls of a reader since the last tick, up to 2
  now,                 \* event loop: the clock, in ms since setup()
  period,              \* event loop: repeat interval of each task, 0 if none
  due,                 \* event loop: time of each task's next run
  count,               \* event loop: runs of each task so far
  ran_at,              \* event loop: time of each task's latest run
  gap,                 \* event loop: time between a task's two latest runs
  pc,                  \* event loop: the statement each task is at, 0 if idle
  cycles,              \* history: fusion ticks seen by the queries of a poll
  offset_,             \* offset of each offset-correction stage
  samples_,            \* lookup table of the interpolation stage, by input
  chain_input,         \* value last fed to a transform stage
  emitted,             \* value last emitted by each offset-correction stage
  interpolated         \* value last emitted by the interpolation stage

storeVars == << fused, installed, fusion_task, installs, log_ >>
scalarVars == << value_type_, throttlePrint_, ret >>
attitudeVars == << attitude_, sk_attitude >>
magcalVars == << mag_cal_, sk_magcal >>
configVars == << save_mag_cal_, report_interval_ms_ >>
msgVars == << msg_attitude, msg_magcal >>
histVars == << requested, polled, nSet, nIssued, last, calls >>
loopVars == << fresh, now, period, due, count, ran_at, gap, pc, cycles >>
chainVars == << offset_, samples_, chain_input, emitted, interpolated >>

vars == << fused, fusion_task, value_type_, throttlePrint_, save_mag_cal_,
           report_interval_ms_, attitude_, mag_cal_, sk_attitude, sk_magcal,
           notified, msg_attitude, msg_magcal, ret, requested, polled, nSet,
           nIssued, last, installed, installs, log_, calls, fresh, now, period,
           due, count, ran_at, gap, pc, cycles, offset_, samples_,
           chain_input, emitted, interpolated >>

\* ------------------------------------------------------------ history step
NoCommand == << >>

NoQuery == << >>

Step(op, reader, pending, req, again, issued) ==
  [op |-> op, reader |-> reader, pending |-> pending, requested |-> req,
   again |-> again, issued |-> issued]

\* ------------------------------------------------------------ transform chain
\* The stages setup() connects behind the heading reader: an offset
\* correction for the mounting, the deviation lookup table, and a second
\* offset correction of offset 0 that normalises the angle.  Angles are whole
\* steps of a full turn of AngleSteps steps.
Stages == {"mounting", "normalise"}
Angles == 0..(AngleSteps - 1)
Offsets == (0 - AngleSteps \div 2)..(AngleSteps \div 2)
QuarterTurn == AngleSteps \div 4

\* The table the DeviationInterpolator constructor installs: a straight
\* one-to-one conversion over the full turn.
DefaultSamples ==
  { [input |-> 0, output |-> 0],
    [input |-> AngleSteps, output |-> AngleSteps] }

CurveInputs == { x \in 0..AngleSteps : x % 4 = 0 }
CurveOutputs == 0..MaxOutput

\* An angle brought into the full turn that starts at 0.
Normalise_Clamped(x) ==
  IF x < 0 THEN 0 ELSE IF x >= AngleSteps THEN AngleSteps - 1 ELSE x

Normalise(x) == x % AngleSteps

\* An offset-correction stage: add the offset, wrap at the domain edges.
AngleCorrection(offset, x) == Normalise(x + offset)

\* An exact fraction.
Fraction(n, d) == [num |-> n, den |-> d]

\* The lookup table stage: the output of the entry a query hits, between
\* two entries the straight line through the nearest two, outside the table
\* the output of the nearest entry.
Interpolate_Nearest(T, x) ==
  LET ins == { e.input : e \in T }
      below == { i \in ins : i <= x }
      near == IF below = {}
                THEN CHOOSE i \in ins : \A j \in ins : i <= j
                ELSE CHOOSE i \in below : \A j \in below : j <= i
  IN Fraction((CHOOSE e \in T : e.input = near).output, 1)

Interpolate(T, x) ==
  LET ins == { e.input : e \in T }
      Out(i) == (CHOOSE e \in T : e.input = i).output
      first == CHOOSE i \in ins : \A j \in ins : i <= j
      final == CHOOSE i \in ins : \A j \in ins : j <= i
  IN IF x <= first THEN Fraction(Out(first), 1)
     ELSE IF x >= final THEN Fraction(Out(final), 1)
     ELSE LET lo == CHOOSE i \in ins :
                      i <= x /\ \A j \in ins : j <= x => j <= i
              hi == CHOOSE i \in ins :
                      i > x /\ \A j \in ins : j > x => i <= j
          IN Fraction(Out(lo) * (hi - lo) + (Out(hi) - Out(lo)) * (x - lo),
                      hi - lo)

\* --------------------------------------------------------------- construction
EmptyMessage == [f \in {} |-> << "null" >>]

\* The constructor's report of the installation: one debugE line when an
\* InstallSensor() or Begin() failed, nothing otherwise.
InstallReport_Silent(ok) == << >>

InstallReport(ok) ==
  IF ok THEN << >> ELSE << "Trouble installing sensors." >>

\* The constructor puts ReadAndProcessSensors on the event loop in the
\* branch taken when the installation succeeded.
TaskRegistered(ok) == ok

Registered_OneRate(task, R, S) ==
  [t \in Tasks |-> IF t = "fusion" /\ ~task THEN 0 ELSE kFusionIntervalMs]

Registered_AtReportRate(task, R, S) ==
  [t \in Tasks |->
     CASE t = "fusion" -> IF task THEN R["attitude"] ELSE 0
       [] t = "scalar" -> S
       [] OTHER -> R[t]]

\* The repeat interval each task is registered with: the fusion task by the
\* OrientationSensor constructor, the composite readers by their own
\* constructors with their report interval R[r], the scalar reader by the
\* RepeatSensor the application wraps around ReportValue, with interval S.
Registered(task, R, S) ==
  [t \in Tasks |->
     CASE t = "fusion" -> IF task THEN kFusionIntervalMs ELSE 0
       [] t = "scalar" -> S
       [] OTHER -> R[t]]

Construct_FlagUnset(R, S) ==
  /\ fused \in FusedStates
  /\ installed \in BOOLEAN
  /\ fusion_task = TaskRegistered(installed)
  /\ installs = 1
  /\ log_ = InstallReport(installed)
  /\ value_type_ \in OrientationValType
  /\ throttlePrint_ = 0
  /\ save_mag_cal_ \in [CmdReaders -> CmdInputs]
  /\ report_interval_ms_ = R
  /\ attitude_ = Attitude(FALSE, 0, 0, 0)
  /\ mag_cal_ = MagCal(FALSE, 0, 0, 0, 0, 0, 0, 0)
  /\ sk_attitude = Attitude(FALSE, 0, 0, 0)
  /\ sk_magcal = MagCal(FALSE, 0, 0, 0, 0, 0, 0, 0)
  /\ notified = {}
  /\ msg_attitude = EmptyMessage
  /\ msg_magcal = EmptyMessage
  /\ ret = 0
  /\ requested = [r \in Readers |-> 0]
  /\ polled = [r \in Readers |-> FALSE]
  /\ nSet = [r \in Readers |-> 0]
  /\ nIssued = [r \in Readers |-> 0]
  /\ last = Step("init", "none", 0, 0, FALSE, NoCommand)
  /\ calls = NoQuery
  /\ fresh = [r \in Readers |-> 0]
  /\ now = 0
  /\ period = Registered(fusion_task, R, S)
  /\ due = period
  /\ count = [t \in Tasks |-> 0]
  /\ ran_at = [t \in Tasks |-> 0]
  /\ gap = [t \in Tasks |-> 0]
  /\ pc = [t \in Tasks |-> 0]
  /\ cycles = [r \in Readers |-> {}]
  /\ offset_ = [s \in Stages |-> IF s = "mounting" THEN QuarterTurn ELSE 0]
  /\ samples_ = DefaultSamples
  /\ chain_input = 0
  /\ emitted = [s \in Stages |-> 0]
  /\ interpolated = Fraction(0, 1)

\* The state after setup(), the readers constructed with report intervals R
\* and the scalar reader polled by a RepeatSensor of interval S.
Construct(R, S) ==
  /\ fused \in FusedStates
  /\ installed \in BOOLEAN
  /\ fusion_task = TaskRegistered(installed)
  /\ installs = 1
  /\ log_ = InstallReport(installed)
  /\ value_type_ \in OrientationValType
  /\ throttlePrint_ = 0
  /\ save_mag_cal_ = [r \in CmdReaders |-> 0]
  /\ report_interval_ms_ = R
  /\ attitude_ = Attitude(FALSE, 0, 0, 0)
  /\ mag_cal_ = MagCal(FALSE, 0, 0, 0, 0, 0, 0, 0)
  /\ sk_attitude = Attitude(FALSE, 0, 0, 0)
  /\ sk_magcal = MagCal(FALSE, 0, 0, 0, 0, 0, 0, 0)
  /\ notified = {}
  /\ msg_attitude = EmptyMessage
  /\ msg_magcal = EmptyMessage
  /\ ret = 0
  /\ requested = [r \in Readers |-> 0]
  /\ polled = [r \in Readers |-> FALSE]
  /\ nSet = [r \in Readers |-> 0]
  /\ nIssued = [r \in Readers |-> 0]
  /\ last = Step("init", "none", 0, 0, FALSE, NoCommand)
  /\ calls = NoQuery
  /\ fresh = [r \in Readers |-> 0]
  /\ now = 0
  /\ period = Registered(fusion_task, R, S)
  /\ due = period
  /\ count = [t \in Tasks |-> 0]
  /\ ran_at = [t \in Tasks |-> 0]
  /\ gap = [t \in Tasks |-> 0]
  /\ pc = [t \in Tasks |-> 0]
  /\ cycles = [r \in Readers |-> {}]
  /\ offset_ = [s \in Stages |-> IF s = "mounting" THEN QuarterTurn ELSE 0]
  /\ samples_ = DefaultSamples
  /\ chain_input = 0
  /\ emitted = [s \in Stages |-> 0]
  /\ interpolated = Fraction(0, 1)

\* Every reader constructed with the default report interval.
Init ==
  Construct([r \in Readers |-> DefaultReportIntervalMs],
            DefaultReportIntervalMs)

\* ------------------------------------------------------------ sampling driver
\* OrientationSensor::ReadAndProcessSensors: ReadSensors() then RunFusion();
\* the fusion engine produces its next state.
ReadAndProcessSensors ==
  /\ fusion_task
  /\ fused' \in FusedStates
  /\ last' = Step("ReadAndProcessSensors", "none", 0, 0, FALSE, NoCommand)
  /\ calls' = NoQuery
  /\ UNCHANGED << installed, fusion_task, installs, log_, scalarVars,
                  attitudeVars, magcalVars, configVars, notified, msgVars,
                  requested, polled, nSet,
                  nIssued >>

\* ------------------------------------------------------ configuration boundary
\* A save_mag_cal value that asks for a command: 1 persist, -1 discard.
IsCommand(c) == c \in {1, 0 - 1}

set_configuration_Retyping(r, interval, cmd) ==
  /\ IsCommand(cmd) =>
       nSet["scalar"] + nSet["attitude"] + nSet["magcal"] < MaxSets
  /\ report_interval_ms_' = [report_interval_ms_ EXCEPT ![r] = interval]
  /\ save_mag_cal_' = IF r \in CmdReaders
                        THEN [save_mag_cal_ EXCEPT ![r] = cmd]
                        ELSE save_mag_cal_
  /\ requested' = [requested EXCEPT ![r] = cmd]
  /\ polled' = [polled EXCEPT ![r] = FALSE]
  /\ nSet' = [nSet EXCEPT ![r] = IF IsCommand(cmd) THEN @ + 1 ELSE @]
  /\ last' = Step("set_configuration", r, 0, cmd, FALSE, NoCommand)
  /\ calls' = NoQuery
  /\ value_type_' = IF r = "scalar" THEN "kRoll" ELSE value_type_
  /\ UNCHANGED << storeVars, throttlePrint_, ret, attitudeVars, magcalVars,
                  notified,
                  msgVars, nIssued >>

set_configuration_Queued(r, interval, cmd) ==
  /\ IsCommand(cmd) =>
       nSet["scalar"] + nSet["attitude"] + nSet["magcal"] < MaxSets
  /\ report_interval_ms_' = [report_interval_ms_ EXCEPT ![r] = interval]
  /\ save_mag_cal_' = IF r \in CmdReaders
                        THEN [save_mag_cal_ EXCEPT
                                ![r] = IF IsCommand(@) THEN @ ELSE cmd]
                        ELSE save_mag_cal_
  /\ requested' = [requested EXCEPT ![r] = cmd]
  /\ polled' = [polled EXCEPT ![r] = FALSE]
  /\ nSet' = [nSet EXCEPT ![r] = IF IsCommand(cmd) THEN @ + 1 ELSE @]
  /\ last' = Step("set_configuration", r, 0, cmd, FALSE, NoCommand)
  /\ calls' = NoQuery
  /\ UNCHANGED << storeVars, scalarVars, attitudeVars, magcalVars, notified,
                  msgVars, nIssued >>

\* set_configuration of a reader: report_interval and, for the readers that
\* have the flag, save_mag_cal are copied from the configuration object.
set_configuration(r, interval, cmd) ==
  /\ IsCommand(cmd) =>
       nSet["scalar"] + nSet["attitude"] + nSet["magcal"] < MaxSets
  /\ report_interval_ms_' = [report_interval_ms_ EXCEPT ![r] = interval]
  /\ save_mag_cal_' = IF r \in CmdReaders
                        THEN [save_mag_cal_ EXCEPT ![r] = cmd]
                        ELSE save_mag_cal_
  /\ requested' = [requested EXCEPT ![r] = cmd]
  /\ polled' = [polled EXCEPT ![r] = FALSE]
  /\ nSet' = [nSet EXCEPT ![r] = IF IsCommand(cmd) THEN @ + 1 ELSE @]
  /\ last' = Step("set_configuration", r, 0, cmd, FALSE, NoCommand)
  /\ calls' = NoQuery
  /\ UNCHANGED << storeVars, scalarVars, attitudeVars, magcalVars, notified,
                  msgVars, nIssued >>

\* ---------------------------------------------------------------- commands
\* The command a reader's poll injects for flag value c.
CommandFor_Swapped(c) ==
  IF c = 1 THEN << "ERMC" >>
  ELSE IF c = 0 - 1 THEN << "SVMC" >>
  ELSE NoCommand

CommandFor_BySign(c) ==
  IF c >= 1 THEN << "SVMC" >>
  ELSE IF c <= 0 - 1 THEN << "ERMC" >>
  ELSE NoCommand

CommandFor(c) ==
  IF c = 1 THEN << "SVMC" >>
  ELSE IF c = 0 - 1 THEN << "ERMC" >>
  ELSE NoCommand

\* -------------------------------------------------------------- scalar reader
\* The store query each case of the switch makes; a value type without a
\* case makes none.
SwitchQuery(t) ==
  CASE t = "kCompassHeading" -> << "GetHeadingRadians" >>
    [] t = "kRoll" -> << "GetRollRadians" >>
    [] t = "kPitch" -> << "GetPitchRadians" >>
    [] t = "kAccelerationX" -> << "GetAccelXMPerSS" >>
    [] t = "kAccelerationY" -> << "GetAccelYMPerSS" >>
    [] t = "kAccelerationZ" -> << "GetAccelZMPerSS" >>
    [] t = "kRateOfTurn" -> << "GetTurnRateRadPerS" >>
    [] t = "kRateOfPitch" -> << "GetPitchRateRadPerS" >>
    [] t = "kRateOfRoll" -> << "GetRollRateRadPerS" >>
    [] t = "kTemperature" -> << "GetTemperatureK" >>
    [] t = "kMagCalFitInUse" -> << "GetMagneticFitError" >>
    [] t = "kMagCalFitTrial" -> << "GetMagneticFitErrorTrial" >>
    [] t = "kMagCalAlgorithmSolver" -> << "GetMagneticCalSolver" >>
    [] t = "kMagInclination" -> << "GetMagneticInclinationRad" >>
    [] t = "kMagFieldMagnitude" -> << "GetMagneticBMag" >>
    [] t = "kMagFieldMagnitudeTrial" -> << "GetMagneticBMagTrial" >>
    [] t = "kMagNoiseCovariance" -> << "GetMagneticNoiseCovariance" >>
    [] OTHER -> NoQuery

ReportSwitch_HeadingByDefault(t, f) ==
  IF SwitchQuery(t) = NoQuery THEN Get("GetHeadingRadians", f)
  ELSE Get(SwitchQuery(t)[1], f)

ReportSwitch_Accumulating(t, f) ==
  ret + (IF SwitchQuery(t) = NoQuery THEN 0 ELSE Get(SwitchQuery(t)[1], f))

\* The switch of OrientationValues::ReportValue.
ReportSwitch(t, f) ==
  CASE t = "kCompassHeading" -> Get("GetHeadingRadians", f)
    [] t = "kRoll" -> Get("GetRollRadians", f)
    [] t = "kPitch" -> Get("GetPitchRadians", f)
    [] t = "kAccelerationX" -> Get("GetAccelXMPerSS", f)
    [] t = "kAccelerationY" -> Get("GetAccelYMPerSS", f)
    [] t = "kAccelerationZ" -> Get("GetAccelZMPerSS", f)
    [] t = "kRateOfTurn" -> Get("GetTurnRateRadPerS", f)
    [] t = "kRateOfPitch" -> Get("GetPitchRateRadPerS", f)
    [] t = "kRateOfRoll" -> Get("GetRollRateRadPerS", f)
    [] t = "kTemperature" -> Get("GetTemperatureK", f)
    [] t = "kMagCalFitInUse" -> Get("GetMagneticFitError", f)
    [] t = "kMagCalFitTrial" -> Get("GetMagneticFitErrorTrial", f)
    [] t = "kMagCalAlgorithmSolver" -> Get("GetMagneticCalSolver", f)
    [] t = "kMagInclination" -> Get("GetMagneticInclinationRad", f)
    [] t = "kMagFieldMagnitude" -> Get("GetMagneticBMag", f)
    [] t = "kMagFieldMagnitudeTrial" -> Get("GetMagneticBMagTrial", f)
    [] t = "kMagNoiseCovariance" -> Get("GetMagneticNoiseCovariance", f)
    [] OTHER -> 0

\* The flag handling at the head of a poll: the command injected and the
\* flag left behind.
DrainCommand_Dropped(c) == [issued |-> NoCommand, flag |-> 0]

DrainCommand_NoReset(c) == [issued |-> CommandFor(c), flag |-> c]

DrainCommand_Twice(c) ==
  [issued |-> CommandFor(c) \o CommandFor(c), flag |-> 0]

DrainCommand(c) == [issued |-> CommandFor(c), flag |-> 0]

ReportValue_Refusing ==
  LET d == DrainCommand(save_mag_cal_["scalar"]) IN
  /\ value_type_ = "kCompassHeading" => throttlePrint_ < MaxThrottle
  /\ save_mag_cal_' = [save_mag_cal_ EXCEPT !["scalar"] = d.flag]
  /\ nIssued' = [nIssued EXCEPT !["scalar"] = @ + Len(d.issued)]
  /\ ret' = ReportSwitch(value_type_, fused)
  /\ throttlePrint_' = IF value_type_ = "kCompassHeading"
                         THEN throttlePrint_ + 1
                         ELSE throttlePrint_
  /\ polled' = [polled EXCEPT !["scalar"] = TRUE]
  /\ last' = Step("ReportValue", "scalar", save_mag_cal_["scalar"],
                  requested["scalar"], polled["scalar"], d.issued)
  /\ calls' = SwitchQuery(value_type_)
  /\ fused' \in FusedStates
  /\ UNCHANGED << installed, fusion_task, installs, log_, value_type_, attitudeVars, magcalVars,
                  report_interval_ms_, notified, msgVars, requested, nSet >>

ReportValue_Throttled ==
  LET d == DrainCommand(save_mag_cal_["scalar"]) IN
  /\ value_type_ = "kCompassHeading" => throttlePrint_ < MaxThrottle
  /\ save_mag_cal_' = [save_mag_cal_ EXCEPT !["scalar"] = d.flag]
  /\ nIssued' = [nIssued EXCEPT !["scalar"] = @ + Len(d.issued)]
  /\ ret' = IF throttlePrint_ % 2 = 1 THEN ret
             ELSE ReportSwitch(value_type_, fused)
  /\ throttlePrint_' = IF value_type_ = "kCompassHeading"
                         THEN throttlePrint_ + 1
                         ELSE throttlePrint_
  /\ polled' = [polled EXCEPT !["scalar"] = TRUE]
  /\ last' = Step("ReportValue", "scalar", save_mag_cal_["scalar"],
                  requested["scalar"], polled["scalar"], d.issued)
  /\ calls' = SwitchQuery(value_type_)
  /\ UNCHANGED << storeVars, value_type_, attitudeVars, magcalVars,
                  report_interval_ms_, notified, msgVars, requested, nSet >>

ReportValue ==
  LET d == DrainCommand(save_mag_cal_["scalar"]) IN
  /\ value_type_ = "kCompassHeading" => throttlePrint_ < MaxThrottle
  /\ save_mag_cal_' = [save_mag_cal_ EXCEPT !["scalar"] = d.flag]
  /\ nIssued' = [nIssued EXCEPT !["scalar"] = @ + Len(d.issued)]
  /\ ret' = ReportSwitch(value_type_, fused)
  /\ throttlePrint_' = IF value_type_ = "kCompassHeading"
                         THEN throttlePrint_ + 1
                         ELSE throttlePrint_
  /\ polled' = [polled EXCEPT !["scalar"] = TRUE]
  /\ last' = Step("ReportValue", "scalar", save_mag_cal_["scalar"],
                  requested["scalar"], polled["scalar"], d.issued)
  /\ calls' = SwitchQuery(value_type_)
  /\ UNCHANGED << storeVars, value_type_, attitudeVars, magcalVars,
                  report_interval_ms_, notified, msgVars, requested, nSet >>

\* ------------------------------------------------------------ attitude reader
\* The store queries of AttitudeValues::Update, in the order it makes them.
AttitudeQueries ==
  << "IsDataValid", "GetHeadingRadians", "GetRollRadians",
     "GetPitchRadians" >>

\* AttitudeValues::Update: drain the flag, read validity and the three
\* angles, emit the record to the connected SKOutput<Attitude>.
AttitudeUpdate_NoDrain ==
  LET a == Attitude(IsDataValid(fused), Get("GetHeadingRadians", fused),
                    Get("GetPitchRadians", fused), Get("GetRollRadians", fused))
  IN
  /\ attitude_' = a
  /\ sk_attitude' = a
  /\ notified' = notified \cup {"attitude"}
  /\ polled' = [polled EXCEPT !["attitude"] = TRUE]
  /\ last' = Step("AttitudeUpdate", "attitude", save_mag_cal_["attitude"],
                  requested["attitude"], polled["attitude"], NoCommand)
  /\ calls' = AttitudeQueries
  /\ UNCHANGED << storeVars, scalarVars, magcalVars, configVars, msgVars,
                  requested, nSet, nIssued >>

AttitudeUpdate_AlwaysValid ==
  LET d == DrainCommand(save_mag_cal_["attitude"])
      a == Attitude(TRUE, Get("GetHeadingRadians", fused),
                    Get("GetPitchRadians", fused), Get("GetRollRadians", fused))
  IN
  /\ save_mag_cal_' = [save_mag_cal_ EXCEPT !["attitude"] = d.flag]
  /\ nIssued' = [nIssued EXCEPT !["attitude"] = @ + Len(d.issued)]
  /\ attitude_' = a
  /\ sk_attitude' = a
  /\ notified' = notified \cup {"attitude"}
  /\ polled' = [polled EXCEPT !["attitude"] = TRUE]
  /\ last' = Step("AttitudeUpdate", "attitude", save_mag_cal_["attitude"],
                  requested["attitude"], polled["attitude"], d.issued)
  /\ calls' = Tail(AttitudeQueries)
  /\ UNCHANGED << storeVars, scalarVars, magcalVars, report_interval_ms_,
                  msgVars, requested, nSet >>

AttitudeUpdate_EmitFirst ==
  LET d == DrainCommand(save_mag_cal_["attitude"])
      a == Attitude(IsDataValid(fused), Get("GetHeadingRadians", fused),
                    Get("GetPitchRadians", fused), Get("GetRollRadians", fused))
  IN
  /\ save_mag_cal_' = [save_mag_cal_ EXCEPT !["attitude"] = d.flag]
  /\ nIssued' = [nIssued EXCEPT !["attitude"] = @ + Len(d.issued)]
  /\ attitude_' = a
  /\ sk_attitude' = attitude_
  /\ notified' = notified \cup {"attitude"}
  /\ polled' = [polled EXCEPT !["attitude"] = TRUE]
  /\ last' = Step("AttitudeUpdate", "attitude", save_mag_cal_["attitude"],
                  requested["attitude"], polled["attitude"], d.issued)
  /\ calls' = AttitudeQueries
  /\ UNCHANGED << storeVars, scalarVars, magcalVars, report_interval_ms_,
                  msgVars, requested, nSet >>

AttitudeUpdate_SharedFlag ==
  LET d == DrainCommand(save_mag_cal_["attitude"])
      a == Attitude(IsDataValid(fused), Get("GetHeadingRadians", fused),
                    Get("GetPitchRadians", fused), Get("GetRollRadians", fused))
  IN
  /\ save_mag_cal_' = [r \in CmdReaders |-> d.flag]
  /\ nIssued' = [nIssued EXCEPT !["attitude"] = @ + Len(d.issued)]
  /\ attitude_' = a
  /\ sk_attitude' = a
  /\ notified' = notified \cup {"attitude"}
  /\ polled' = [polled EXCEPT !["attitude"] = TRUE]
  /\ last' = Step("AttitudeUpdate", "attitude", save_mag_cal_["attitude"],
                  requested["attitude"], polled["attitude"], d.issued)
  /\ calls' = AttitudeQueries
  /\ UNCHANGED << storeVars, scalarVars, magcalVars, report_interval_ms_,
                  msgVars, requested, nSet >>

AttitudeUpdate ==
  LET d == DrainCommand(save_mag_cal_["attitude"])
      a == Attitude(IsDataValid(fused), Get("GetHeadingRadians", fused),
                    Get("GetPitchRadians", fused), Get("GetRollRadians", fused))
  IN
  /\ save_mag_cal_' = [save_mag_cal_ EXCEPT !["attitude"] = d.flag]
  /\ nIssued' = [nIssued EXCEPT !["attitude"] = @ + Len(d.issued)]
  /\ attitude_' = a
  /\ sk_attitude' = a
  /\ notified' = notified \cup {"attitude"}
  /\ polled' = [polled EXCEPT !["attitude"] = TRUE]
  /\ last' = Step("AttitudeUpdate", "attitude", save_mag_cal_["attitude"],
                  requested["attitude"], polled["attitude"], d.issued)
  /\ calls' = AttitudeQueries
  /\ UNCHANGED << storeVars, scalarVars, magcalVars, report_interval_ms_,
                  msgVars, requested, nSet >>

\* ---------------------------------------------------------- calibration reader
Div100_Identity(x) == x

Div100(x) == x \div 100

\* The store queries of MagCalValues::Update, in the order it makes them.
MagCalQueries ==
  << "IsDataValid", "GetMagneticFitError", "GetMagneticFitErrorTrial",
     "GetMagneticBMag", "GetMagneticBMagTrial", "GetMagneticNoiseCovariance",
     "GetMagneticCalSolver", "GetMagneticInclinationRad" >>

\* MagCalValues::Update: read validity and the seven calibration values,
\* emit the record to the connected SKOutput<MagCal>.  The class has no
\* save_mag_cal_ member and the method injects no command.
MagCalUpdate_Drains ==
  LET m == MagCal(IsDataValid(fused),
                  Get("GetMagneticInclinationRad", fused),
                  Div100(Get("GetMagneticFitError", fused)),
                  Div100(Get("GetMagneticFitErrorTrial", fused)),
                  Get("GetMagneticBMag", fused),
                  Get("GetMagneticBMagTrial", fused),
                  Get("GetMagneticNoiseCovariance", fused),
                  Get("GetMagneticCalSolver", fused))
      d == DrainCommand(IF polled["magcal"] THEN 0 ELSE requested["magcal"])
  IN
  /\ mag_cal_' = m
  /\ sk_magcal' = m
  /\ notified' = notified \cup {"magcal"}
  /\ polled' = [polled EXCEPT !["magcal"] = TRUE]
  /\ nIssued' = [nIssued EXCEPT !["magcal"] = @ + Len(d.issued)]
  /\ last' = Step("MagCalUpdate", "magcal", 0, requested["magcal"],
                  polled["magcal"], d.issued)
  /\ calls' = MagCalQueries
  /\ UNCHANGED << storeVars, scalarVars, attitudeVars, configVars, msgVars,
                  requested, nSet >>

MagCalUpdate ==
  LET m == MagCal(IsDataValid(fused),
                  Get("GetMagneticInclinationRad", fused),
                  Div100(Get("GetMagneticFitError", fused)),
                  Div100(Get("GetMagneticFitErrorTrial", fused)),
                  Get("GetMagneticBMag", fused),
                  Get("GetMagneticBMagTrial", fused),
                  Get("GetMagneticNoiseCovariance", fused),
                  Get("GetMagneticCalSolver", fused))
  IN
  /\ mag_cal_' = m
  /\ sk_magcal' = m
  /\ notified' = notified \cup {"magcal"}
  /\ polled' = [polled EXCEPT !["magcal"] = TRUE]
  /\ last' = Step("MagCalUpdate", "magcal", 0, requested["magcal"],
                  polled["magcal"], NoCommand)
  /\ calls' = MagCalQueries
  /\ UNCHANGED << storeVars, scalarVars, attitudeVars, configVars, msgVars,
                  requested, nSet, nIssued >>

\* ------------------------------------------------------------------ publisher
JsonNull == << "null" >>

JsonNumber(x) == << "number", x >>

\* SKOutput<Attitude>::as_signalk: the "value" object of the message.
as_signalk_Attitude_Zero(output) ==
  IF output.is_data_valid
    THEN [yaw |-> JsonNumber(output.yaw),
          pitch |-> JsonNumber(output.pitch),
          roll |-> JsonNumber(output.roll)]
    ELSE [yaw |-> JsonNumber(0), pitch |-> JsonNumber(0),
          roll |-> JsonNumber(0)]

as_signalk_Attitude_Omit(output) ==
  IF output.is_data_valid
    THEN [yaw |-> JsonNumber(output.yaw),
          pitch |-> JsonNumber(output.pitch),
          roll |-> JsonNumber(output.roll)]
    ELSE [f \in {} |-> JsonNull]

as_signalk_Attitude(output) ==
  IF output.is_data_valid
    THEN [yaw |-> JsonNumber(output.yaw),
          pitch |-> JsonNumber(output.pitch),
          roll |-> JsonNumber(output.roll)]
    ELSE [yaw |-> JsonNull, pitch |-> JsonNull, roll |-> JsonNull]

\* SKOutput<MagCal>::as_signalk: the "value" object of the message.
as_signalk_MagCal_AllNull(output) ==
  IF output.is_data_valid
    THEN [incl |-> JsonNumber(output.magnetic_inclination),
          ferr |-> JsonNumber(output.cal_fit_error),
          ferrt |-> JsonNumber(output.cal_fit_error_trial),
          bmag |-> JsonNumber(output.mag_field_magnitude),
          bmagt |-> JsonNumber(output.mag_field_magnitude_trial),
          noise |-> JsonNumber(output.mag_noise_covariance),
          solver |-> JsonNumber(output.mag_solver)]
    ELSE [incl |-> JsonNull, ferr |-> JsonNull, ferrt |-> JsonNull,
          bmag |-> JsonNull, bmagt |-> JsonNull, noise |-> JsonNull,
          solver |-> JsonNull]

as_signalk_MagCal_TrialNumeric(output) ==
  IF output.is_data_valid
    THEN [incl |-> JsonNumber(output.magnetic_inclination),
          ferr |-> JsonNumber(output.cal_fit_error),
          ferrt |-> JsonNumber(output.cal_fit_error_trial),
          bmag |-> JsonNumber(output.mag_field_magnitude),
          bmagt |-> JsonNumber(output.mag_field_magnitude_trial),
          noise |-> JsonNumber(output.mag_noise_covariance),
          solver |-> JsonNumber(output.mag_solver)]
    ELSE [incl |-> JsonNull,
          ferr |-> JsonNumber(output.cal_fit_error),
          ferrt |-> JsonNumber(output.cal_fit_error_trial),
          bmag |-> JsonNumber(output.mag_field_magnitude),
          bmagt |-> JsonNull,
          noise |-> JsonNull,
          solver |-> JsonNumber(output.mag_solver)]

as_signalk_MagCal(output) ==
  IF output.is_data_valid
    THEN [incl |-> JsonNumber(output.magnetic_inclination),
          ferr |-> JsonNumber(output.cal_fit_error),
          ferrt |-> JsonNumber(output.cal_fit_error_trial),
          bmag |-> JsonNumber(output.mag_field_magnitude),
          bmagt |-> JsonNumber(output.mag_field_magnitude_trial),
          noise |-> JsonNumber(output.mag_noise_covariance),
          solver |-> JsonNumber(output.mag_solver)]
    ELSE [incl |-> JsonNull,
          ferr |-> JsonNumber(output.cal_fit_error),
          ferrt |-> JsonNull,
          bmag |-> JsonNumber(output.mag_field_magnitude),
          bmagt |-> JsonNull,
          noise |-> JsonNull,
          solver |-> JsonNumber(output.mag_solver)]

PublishAttitude_Consuming ==
  /\ "attitude" \in notified
  /\ msg_attitude' = as_signalk_Attitude(sk_attitude)
  /\ last' = Step("PublishAttitude", "none", 0, 0, FALSE, NoCommand)
  /\ calls' = NoQuery
  /\ sk_attitude' = Attitude(FALSE, 0, 0, 0)
  /\ UNCHANGED << storeVars, scalarVars, attitude_, magcalVars, configVars,
                  notified, msg_magcal, requested, polled, nSet, nIssued >>

\* The framework serialises an output that has been notified of a value.
PublishAttitude ==
  /\ "attitude" \in notified
  /\ msg_attitude' = as_signalk_Attitude(sk_attitude)
  /\ last' = Step("PublishAttitude", "none", 0, 0, FALSE, NoCommand)
  /\ calls' = NoQuery
  /\ UNCHANGED << storeVars, scalarVars, attitudeVars, magcalVars, configVars,
                  notified, msg_magcal, requested, polled, nSet, nIssued >>

PublishMagCal ==
  /\ "magcal" \in notified
  /\ msg_magcal' = as_signalk_MagCal(sk_magcal)
  /\ last' = Step("PublishMagCal", "none", 0, 0, FALSE, NoCommand)
  /\ calls' = NoQuery
  /\ UNCHANGED << storeVars, scalarVars, attitudeVars, magcalVars, configVars,
                  notified, msg_attitude, requested, polled, nSet, nIssued >>

\* Records handed to an SKOutput directly: built from one fused state the
\* way the readers build them.
AttitudeOf(f) ==
  Attitude(f.valid, Get("GetHeadingRadians", f), Get("GetPitchRadians", f),
           Get("GetRollRadians", f))

MagCalOf(f) ==
  MagCal(f.valid, Get("GetMagneticInclinationRad", f),
         Div100(Get("GetMagneticFitError", f)),
         Div100(Get("GetMagneticFitErrorTrial", f)),
         Get("GetMagneticBMag", f), Get("GetMagneticBMagTrial", f),
         Get("GetMagneticNoiseCovariance", f), Get("GetMagneticCalSolver", f))

\* SKOutput<Attitude>::set_input
set_input_Attitude(new_value) ==
  /\ sk_attitude' = new_value
  /\ notified' = notified \cup {"attitude"}
  /\ last' = Step("set_input_Attitude", "none", 0, 0, FALSE, NoCommand)
  /\ calls' = NoQuery
  /\ UNCHANGED << storeVars, scalarVars, attitude_, magcalVars, configVars,
                  msgVars, requested, polled, nSet, nIssued >>

\* SKOutput<MagCal>::set_input
set_input_MagCal(new_value) ==
  /\ sk_magcal' = new_value
  /\ notified' = notified \cup {"magcal"}
  /\ last' = Step("set_input_MagCal", "none", 0, 0, FALSE, NoCommand)
  /\ calls' = NoQuery
  /\ UNCHANGED << storeVars, scalarVars, attitudeVars, mag_cal_, configVars,
                  msgVars, requested, polled, nSet, nIssued >>

\* ------------------------------------------------------------------ event loop
\* EventLoop::tick() runs, one after another, the repeat events whose time
\* has come; a repeat event is rescheduled one interval after the time it
\* was due.
Scheduled == { t \in Tasks : period[t] > 0 }

Quiescent == \A t \in Scheduled : due[t] > now

NextDue ==
  CHOOSE d \in { due[t] : t \in Scheduled } :
    \A t \in Scheduled : d <= due[t]

\* Bookkeeping of the polls since the last fusion tick: none, one, or two
\* and more.
Counted(t) == [fresh EXCEPT ![t] = IF @ < 2 THEN @ + 1 ELSE 2]

Freshness(t) ==
  fresh' = IF t = "fusion" THEN [r \in Readers |-> 0] ELSE Counted(t)

\* Time passes until the next event is due.
Advance ==
  /\ Scheduled # {}
  /\ Quiescent
  /\ NextDue <= WindowMs
  /\ now' = NextDue
  /\ UNCHANGED chainVars
  /\ UNCHANGED << storeVars, scalarVars, attitudeVars, magcalVars, configVars,
                  notified, msgVars, histVars, fresh, period, due, count,
                  ran_at, gap, pc, cycles >>

\* The event loop runs the callback of task t, which is due.
Run(t) ==
  /\ t \in Scheduled
  /\ due[t] = now
  /\ due' = [due EXCEPT ![t] = @ + period[t]]
  /\ count' = [count EXCEPT ![t] = @ + 1]
  /\ gap' = [gap EXCEPT ![t] = now - ran_at[t]]
  /\ ran_at' = [ran_at EXCEPT ![t] = now]
  /\ Freshness(t)
  /\ UNCHANGED chainVars
  /\ UNCHANGED << now, period, pc, cycles >>

\* A callback run with the clock out of the picture.
Polled(t) ==
  /\ Freshness(t)
  /\ UNCHANGED chainVars
  /\ UNCHANGED << now, period, due, count, ran_at, gap, pc,
                  cycles >>

\* ------------------------------------------------------- transform stages
\* A new offset for a stage, supplied by the configuration.
set_offset(s, o) ==
  /\ offset_' = [offset_ EXCEPT ![s] = o]
  /\ last' = Step("set_offset", "none", 0, 0, FALSE, NoCommand)
  /\ calls' = NoQuery
  /\ UNCHANGED << storeVars, scalarVars, attitudeVars, magcalVars, configVars,
                  notified, msgVars, requested, polled, nSet, nIssued,
                  loopVars, samples_, chain_input, emitted, interpolated >>

\* A value fed to the mounting stage, whose output feeds the normalise
\* stage.
set_input_Offsets(x) ==
  LET once == AngleCorrection(offset_["mounting"], x) IN
  /\ chain_input' = x
  /\ emitted' = [mounting |-> once,
                 normalise |-> AngleCorrection(offset_["normalise"], once)]
  /\ last' = Step("set_input_Offsets", "none", 0, 0, FALSE, NoCommand)
  /\ calls' = NoQuery
  /\ UNCHANGED << storeVars, scalarVars, attitudeVars, magcalVars, configVars,
                  notified, msgVars, requested, polled, nSet, nIssued,
                  loopVars, offset_, samples_, interpolated >>

clear_samples ==
  /\ samples_' = {}
  /\ last' = Step("clear_samples", "none", 0, 0, FALSE, NoCommand)
  /\ calls' = NoQuery
  /\ UNCHANGED << storeVars, scalarVars, attitudeVars, magcalVars, configVars,
                  notified, msgVars, requested, polled, nSet, nIssued,
                  loopVars, offset_, chain_input, emitted, interpolated >>

\* add_sample: the table holds one entry per input.
add_sample(x, y) ==
  /\ Cardinality(samples_) < MaxSamples
  /\ samples_' = IF \E e \in samples_ : e.input = x
                   THEN samples_
                   ELSE samples_ \cup { [input |-> x, output |-> y] }
  /\ last' = Step("add_sample", "none", 0, 0, FALSE, NoCommand)
  /\ calls' = NoQuery
  /\ UNCHANGED << storeVars, scalarVars, attitudeVars, magcalVars, configVars,
                  notified, msgVars, requested, polled, nSet, nIssued,
                  loopVars, offset_, chain_input, emitted, interpolated >>

\* A value fed to the lookup table stage.
set_input_Curve(x) ==
  /\ samples_ # {}
  /\ chain_input' = x
  /\ interpolated' = Interpolate(samples_, x)
  /\ last' = Step("set_input_Curve", "none", 0, 0, FALSE, NoCommand)
  /\ calls' = NoQuery
  /\ UNCHANGED << storeVars, scalarVars, attitudeVars, magcalVars, configVars,
                  notified, msgVars, requested, polled, nSet, nIssued,
                  loopVars, offset_, samples_, emitted >>

\* ------------------------------------------------- statement by statement
\* The callbacks followed one statement at a time.  loop() calls
\* event_loop()->tick(), which runs a callback to its end before it starts
\* the next one.
EventLoopFree_Preemptive == TRUE

EventLoopFree == \A t \in Tasks : pc[t] = 0

\* The assignments of AttitudeValues::Update, in order: the field of
\* attitude_ and the store query that fills it.
AttitudeSteps ==
  << [field |-> "is_data_valid", query |-> "IsDataValid", div |-> 1],
     [field |-> "yaw", query |-> "GetHeadingRadians", div |-> 1],
     [field |-> "roll", query |-> "GetRollRadians", div |-> 1],
     [field |-> "pitch", query |-> "GetPitchRadians", div |-> 1] >>

\* The assignments of MagCalValues::Update, in order.
MagCalSteps ==
  << [field |-> "is_data_valid", query |-> "IsDataValid", div |-> 1],
     [field |-> "cal_fit_error", query |-> "GetMagneticFitError",
      div |-> 100],
     [field |-> "cal_fit_error_trial", query |-> "GetMagneticFitErrorTrial",
      div |-> 100],
     [field |-> "mag_field_magnitude", query |-> "GetMagneticBMag",
      div |-> 1],
     [field |-> "mag_field_magnitude_trial", query |-> "GetMagneticBMagTrial",
      div |-> 1],
     [field |-> "mag_noise_covariance",
      query |-> "GetMagneticNoiseCovariance", div |-> 1],
     [field |-> "mag_solver", query |-> "GetMagneticCalSolver", div |-> 1],
     [field |-> "magnetic_inclination",
      query |-> "GetMagneticInclinationRad", div |-> 1] >>

\* The value one assignment stores.
Assigned(st, f) ==
  IF st.query = "IsDataValid" THEN IsDataValid(f)
  ELSE IF st.div = 100 THEN Div100(Get(st.query, f))
  ELSE Get(st.query, f)

TickReadSensors_Interrupting ==
  /\ fusion_task
  /\ pc["fusion"] = 0
  /\ count["fusion"] < MaxTicks
  /\ pc' = [pc EXCEPT !["fusion"] = 1]
  /\ last' = Step("ReadSensors", "none", 0, 0, FALSE, NoCommand)
  /\ calls' = NoQuery
  /\ UNCHANGED chainVars
  /\ UNCHANGED << storeVars, scalarVars, attitudeVars, magcalVars, configVars,
                  notified, msgVars, requested, polled, nSet, nIssued, fresh,
                  now, period, due, count, ran_at, gap, cycles >>

\* ReadSensors(), the first statement of ReadAndProcessSensors.
TickReadSensors ==
  /\ fusion_task
  /\ pc["fusion"] = 0
  /\ EventLoopFree
  /\ count["fusion"] < MaxTicks
  /\ pc' = [pc EXCEPT !["fusion"] = 1]
  /\ last' = Step("ReadSensors", "none", 0, 0, FALSE, NoCommand)
  /\ calls' = NoQuery
  /\ UNCHANGED chainVars
  /\ UNCHANGED << storeVars, scalarVars, attitudeVars, magcalVars, configVars,
                  notified, msgVars, requested, polled, nSet, nIssued, fresh,
                  now, period, due, count, ran_at, gap, cycles >>

TickRunFusion_NoRead ==
  /\ fusion_task
  /\ pc["fusion"] \in {0, 1}
  /\ pc["fusion"] = 0 => EventLoopFree /\ count["fusion"] < MaxTicks
  /\ fused' \in FusedStates
  /\ count' = [count EXCEPT !["fusion"] = @ + 1]
  /\ fresh' = [r \in Readers |-> 0]
  /\ pc' = [pc EXCEPT !["fusion"] = 0]
  /\ last' = Step("RunFusion", "none", 0, 0, FALSE, NoCommand)
  /\ calls' = NoQuery
  /\ UNCHANGED chainVars
  /\ UNCHANGED << installed, fusion_task, installs, log_, scalarVars,
                  attitudeVars, magcalVars, configVars, notified, msgVars,
                  requested, polled, nSet, nIssued, now, period, due, ran_at,
                  gap, cycles >>

\* RunFusion(), its second statement: the new fused state.
TickRunFusion ==
  /\ pc["fusion"] = 1
  /\ fused' \in FusedStates
  /\ count' = [count EXCEPT !["fusion"] = @ + 1]
  /\ fresh' = [r \in Readers |-> 0]
  /\ pc' = [pc EXCEPT !["fusion"] = 0]
  /\ last' = Step("RunFusion", "none", 0, 0, FALSE, NoCommand)
  /\ calls' = NoQuery
  /\ UNCHANGED chainVars
  /\ UNCHANGED << installed, fusion_task, installs, log_, scalarVars,
                  attitudeVars, magcalVars, configVars, notified, msgVars,
                  requested, polled, nSet, nIssued, now, period, due, ran_at,
                  gap, cycles >>

\* OrientationValues::ReportValue up to the reset of the flag.
ReportBegin ==
  LET d == DrainCommand(save_mag_cal_["scalar"]) IN
  /\ pc["scalar"] = 0
  /\ EventLoopFree
  /\ value_type_ = "kCompassHeading" => throttlePrint_ < MaxThrottle
  /\ save_mag_cal_' = [save_mag_cal_ EXCEPT !["scalar"] = d.flag]
  /\ nIssued' = [nIssued EXCEPT !["scalar"] = @ + Len(d.issued)]
  /\ polled' = [polled EXCEPT !["scalar"] = TRUE]
  /\ pc' = [pc EXCEPT !["scalar"] = 1]
  /\ last' = Step("ReportBegin", "scalar", save_mag_cal_["scalar"],
                  requested["scalar"], polled["scalar"], d.issued)
  /\ calls' = NoQuery
  /\ UNCHANGED chainVars
  /\ UNCHANGED << storeVars, scalarVars, attitudeVars, magcalVars,
                  report_interval_ms_, notified, msgVars, requested, nSet,
                  fresh, now, period, due, count, ran_at, gap, cycles >>

\* The switch of ReportValue and its return.
ReportReturn ==
  /\ pc["scalar"] = 1
  /\ ret' = ReportSwitch(value_type_, fused)
  /\ throttlePrint_' = IF value_type_ = "kCompassHeading"
                         THEN throttlePrint_ + 1
                         ELSE throttlePrint_
  /\ calls' = SwitchQuery(value_type_)
  /\ fresh' = Counted("scalar")
  /\ pc' = [pc EXCEPT !["scalar"] = 0]
  /\ last' = Step("ReportReturn", "scalar", 0, requested["scalar"], TRUE,
                  NoCommand)
  /\ UNCHANGED chainVars
  /\ UNCHANGED << storeVars, value_type_, attitudeVars, magcalVars,
                  configVars, notified, msgVars, requested, polled, nSet,
                  nIssued, now, period, due, count, ran_at, gap, cycles >>

AttitudeBegin_NoDrain ==
  /\ pc["attitude"] = 0
  /\ EventLoopFree
  /\ polled' = [polled EXCEPT !["attitude"] = TRUE]
  /\ pc' = [pc EXCEPT !["attitude"] = 1]
  /\ cycles' = [cycles EXCEPT !["attitude"] = {}]
  /\ last' = Step("AttitudeBegin", "attitude", save_mag_cal_["attitude"],
                  requested["attitude"], polled["attitude"], NoCommand)
  /\ calls' = NoQuery
  /\ UNCHANGED chainVars
  /\ UNCHANGED << storeVars, scalarVars, attitudeVars, magcalVars,
                  configVars, notified, msgVars, requested, nSet, nIssued,
                  fresh, now, period, due, count, ran_at, gap >>

\* AttitudeValues::Update up to the reset of the flag.
AttitudeBegin ==
  LET d == DrainCommand(save_mag_cal_["attitude"]) IN
  /\ pc["attitude"] = 0
  /\ EventLoopFree
  /\ save_mag_cal_' = [save_mag_cal_ EXCEPT !["attitude"] = d.flag]
  /\ nIssued' = [nIssued EXCEPT !["attitude"] = @ + Len(d.issued)]
  /\ polled' = [polled EXCEPT !["attitude"] = TRUE]
  /\ pc' = [pc EXCEPT !["attitude"] = 1]
  /\ cycles' = [cycles EXCEPT !["attitude"] = {}]
  /\ last' = Step("AttitudeBegin", "attitude", save_mag_cal_["attitude"],
                  requested["attitude"], polled["attitude"], d.issued)
  /\ calls' = NoQuery
  /\ UNCHANGED chainVars
  /\ UNCHANGED << storeVars, scalarVars, attitudeVars, magcalVars,
                  report_interval_ms_, notified, msgVars, requested, nSet,
                  fresh, now, period, due, count, ran_at, gap >>

AttitudeAssign_KeptWhenInvalid ==
  /\ pc["attitude"] \in 1..Len(AttitudeSteps)
  /\ LET st == AttitudeSteps[pc["attitude"]] IN
       /\ attitude_' = IF st.field = "is_data_valid" \/ IsDataValid(fused)
                      THEN [attitude_ EXCEPT ![st.field] = Assigned(st, fused)]
                      ELSE attitude_
       /\ calls' = << st.query >>
  /\ cycles' = [cycles EXCEPT !["attitude"] = @ \cup {count["fusion"]}]
  /\ pc' = [pc EXCEPT !["attitude"] = @ + 1]
  /\ last' = Step("AttitudeAssign", "attitude", 0, requested["attitude"],
                  TRUE, NoCommand)
  /\ UNCHANGED chainVars
  /\ UNCHANGED << storeVars, scalarVars, sk_attitude, magcalVars, configVars,
                  notified, msgVars, requested, polled, nSet, nIssued, fresh,
                  now, period, due, count, ran_at, gap >>

\* One assignment to a field of attitude_ from the store.
AttitudeAssign ==
  /\ pc["attitude"] \in 1..Len(AttitudeSteps)
  /\ LET st == AttitudeSteps[pc["attitude"]] IN
       /\ attitude_' = [attitude_ EXCEPT ![st.field] = Assigned(st, fused)]
       /\ calls' = << st.query >>
  /\ cycles' = [cycles EXCEPT !["attitude"] = @ \cup {count["fusion"]}]
  /\ pc' = [pc EXCEPT !["attitude"] = @ + 1]
  /\ last' = Step("AttitudeAssign", "attitude", 0, requested["attitude"],
                  TRUE, NoCommand)
  /\ UNCHANGED chainVars
  /\ UNCHANGED << storeVars, scalarVars, sk_attitude, magcalVars, configVars,
                  notified, msgVars, requested, polled, nSet, nIssued, fresh,
                  now, period, due, count, ran_at, gap >>

AttitudeEmit_SuppressedWhenInvalid ==
  /\ pc["attitude"] = Len(AttitudeSteps) + 1
  /\ sk_attitude' = IF attitude_.is_data_valid THEN attitude_ ELSE sk_attitude
  /\ notified' = IF attitude_.is_data_valid
                  THEN notified \cup {"attitude"}
                  ELSE notified
  /\ fresh' = Counted("attitude")
  /\ pc' = [pc EXCEPT !["attitude"] = 0]
  /\ last' = Step("AttitudeEmit", "attitude", 0, requested["attitude"],
                  TRUE, NoCommand)
  /\ calls' = NoQuery
  /\ UNCHANGED chainVars
  /\ UNCHANGED << storeVars, scalarVars, attitude_, magcalVars, configVars,
                  msgVars, requested, polled, nSet, nIssued, now, period, due,
                  count, ran_at, gap, cycles >>

\* emit(attitude_), the last statement.
AttitudeEmit ==
  /\ pc["attitude"] = Len(AttitudeSteps) + 1
  /\ sk_attitude' = attitude_
  /\ notified' = notified \cup {"attitude"}
  /\ fresh' = Counted("attitude")
  /\ pc' = [pc EXCEPT !["attitude"] = 0]
  /\ last' = Step("AttitudeEmit", "attitude", 0, requested["attitude"],
                  TRUE, NoCommand)
  /\ calls' = NoQuery
  /\ UNCHANGED chainVars
  /\ UNCHANGED << storeVars, scalarVars, attitude_, magcalVars, configVars,
                  msgVars, requested, polled, nSet, nIssued, now, period, due,
                  count, ran_at, gap, cycles >>

\* MagCalValues::Update has no statement before its first assignment.
MagCalAssign ==
  /\ \/ pc["magcal"] = 0 /\ EventLoopFree
     \/ pc["magcal"] \in 2..Len(MagCalSteps)
  /\ LET k == IF pc["magcal"] = 0 THEN 1 ELSE pc["magcal"]
         st == MagCalSteps[k]
     IN
       /\ mag_cal_' = [mag_cal_ EXCEPT ![st.field] = Assigned(st, fused)]
       /\ calls' = << st.query >>
       /\ pc' = [pc EXCEPT !["magcal"] = k + 1]
       /\ cycles' = [cycles EXCEPT !["magcal"] =
                       (IF k = 1 THEN {} ELSE @) \cup {count["fusion"]}]
  /\ polled' = [polled EXCEPT !["magcal"] = TRUE]
  /\ last' = Step("MagCalAssign", "magcal", 0, requested["magcal"],
                  polled["magcal"], NoCommand)
  /\ UNCHANGED chainVars
  /\ UNCHANGED << storeVars, scalarVars, attitudeVars, sk_magcal, configVars,
                  notified, msgVars, requested, nSet, nIssued, fresh, now,
                  period, due, count, ran_at, gap >>

\* emit(mag_cal_), the last statement.
MagCalEmit ==
  /\ pc["magcal"] = Len(MagCalSteps) + 1
  /\ sk_magcal' = mag_cal_
  /\ notified' = notified \cup {"magcal"}
  /\ fresh' = Counted("magcal")
  /\ pc' = [pc EXCEPT !["magcal"] = 0]
  /\ last' = Step("MagCalEmit", "magcal", 0, requested["magcal"], TRUE,
                  NoCommand)
  /\ calls' = NoQuery
  /\ UNCHANGED chainVars
  /\ UNCHANGED << storeVars, scalarVars, attitudeVars, mag_cal_, configVars,
                  msgVars, requested, polled, nSet, nIssued, now, period, due,
                  count, ran_at, gap, cycles >>

\* ------------------------------------------------------------ specifications
\* A step taken with the event loop's clock and schedule out of the picture.
Untimed == UNCHANGED << loopVars, chainVars >>

InitDefault == Init /\ value_type_ = "kCompassHeading"

InitCmd == Init /\ value_type_ = "kRoll"

\* One scalar reader of any value type.
NextScalar ==
  \/ ReadAndProcessSensors /\ Untimed
  \/ \E i \in Intervals, c \in CmdInputs :
       set_configuration("scalar", i, c) /\ Untimed
  \/ ReportValue /\ Untimed

SpecScalar == Init /\ [][NextScalar]_vars

\* The attitude reader connected to its output.
NextAttitude ==
  \/ ReadAndProcessSensors /\ Untimed
  \/ \E i \in Intervals, c \in CmdInputs :
       set_configuration("attitude", i, c) /\ Untimed
  \/ AttitudeUpdate /\ Untimed
  \/ PublishAttitude /\ Untimed

SpecAttitude == InitDefault /\ [][NextAttitude]_vars

\* The calibration reader connected to its output.
NextMagCal ==
  \/ ReadAndProcessSensors /\ Untimed
  \/ \E i \in Intervals, c \in CmdInputs :
       set_configuration("magcal", i, c) /\ Untimed
  \/ MagCalUpdate /\ Untimed
  \/ PublishMagCal /\ Untimed

SpecMagCal == InitDefault /\ [][NextMagCal]_vars

\* The two readers that carry a command flag, side by side; the
\* configuration object carries each reader's report interval unchanged.
NextCmd ==
  \/ ReadAndProcessSensors /\ Untimed
  \/ \E r \in CmdReaders, c \in CmdInputs :
       set_configuration(r, report_interval_ms_[r], c) /\ Untimed
  \/ ReportValue /\ Untimed
  \/ AttitudeUpdate /\ Untimed

SpecCmd == InitCmd /\ [][NextCmd]_vars

\* The two composite outputs fed through set_input.
NextPublish ==
  \/ \E f \in FusedStates : set_input_Attitude(AttitudeOf(f)) /\ Untimed
  \/ \E f \in FusedStates : set_input_MagCal(MagCalOf(f)) /\ Untimed
  \/ PublishAttitude /\ Untimed
  \/ PublishMagCal /\ Untimed

SpecPublish == InitDefault /\ [][NextPublish]_vars

\* The readers polled in any order between fusion ticks.
NextPoll ==
  \/ ReadAndProcessSensors /\ Polled("fusion")
  \/ ReportValue /\ Polled("scalar")
  \/ AttitudeUpdate /\ Polled("attitude")
  \/ MagCalUpdate /\ Polled("magcal")

SpecPoll == Init /\ [][NextPoll]_vars

\* The event loop with its clock: the composite readers constructed with a
\* report interval each, the scalar reader wrapped in a RepeatSensor.
InitTimed ==
  /\ \E R \in [Readers -> Intervals], S \in Intervals :
       /\ R["scalar"] = DefaultReportIntervalMs
       /\ Construct(R, S)
  /\ value_type_ = "kMagCalFitInUse"

NextTimed ==
  \/ Advance
  \/ Run("fusion") /\ ReadAndProcessSensors
  \/ Run("scalar") /\ ReportValue
  \/ Run("attitude") /\ AttitudeUpdate
  \/ Run("magcal") /\ MagCalUpdate

SpecTimed == InitTimed /\ [][NextTimed]_vars

\* The tick and the two composite polls, one statement per step.
NextSteps ==
  \/ TickReadSensors
  \/ TickRunFusion
  \/ AttitudeBegin
  \/ AttitudeAssign
  \/ AttitudeEmit
  \/ MagCalAssign
  \/ MagCalEmit

SpecSteps == InitDefault /\ [][NextSteps]_vars

\* The event loop with its clock and the attitude reader's configuration.
InitReconfig == Init /\ value_type_ = "kMagCalFitInUse"

NextReconfig ==
  \/ Advance
  \/ \E i \in Intervals : set_configuration("attitude", i, 0) /\ Untimed
  \/ Run("fusion") /\ ReadAndProcessSensors
  \/ Run("scalar") /\ ReportValue
  \/ Run("attitude") /\ AttitudeUpdate
  \/ Run("magcal") /\ MagCalUpdate

SpecReconfig == InitReconfig /\ [][NextReconfig]_vars

\* Two offset-correction stages in a row, their offsets configurable.
InitTransform ==
  /\ Init
  /\ value_type_ = "kCompassHeading"
  /\ installed
  /\ fused = [valid |-> TRUE, sample |-> 0]

NextOffsets ==
  \/ \E s \in Stages, o \in Offsets : set_offset(s, o)
  \/ \E x \in Angles : set_input_Offsets(x)

SpecOffsets == InitTransform /\ [][NextOffsets]_vars

\* The lookup table stage, its table built entry by entry.
NextCurve ==
  \/ clear_samples
  \/ \E x \in CurveInputs, y \in CurveOutputs : add_sample(x, y)
  \/ \E x \in 0..AngleSteps : set_input_Curve(x)

SpecCurve == InitTransform /\ [][NextCurve]_vars

\* The polls of the two readers that carry a command flag, one statement
\* per step, with command requests arriving between callbacks.
NextStepsCmd ==
  \/ \E r \in CmdReaders, c \in CmdInputs :
       EventLoopFree /\ set_configuration(r, report_interval_ms_[r], c)
         /\ Untimed
  \/ ReportBegin
  \/ ReportReturn
  \/ AttitudeBegin
  \/ AttitudeAssign
  \/ AttitudeEmit

InitStepsCmd == InitCmd /\ installed

SpecStepsCmd == InitStepsCmd /\ [][NextStepsCmd]_vars

\* The two readers that carry a command flag, each polled again and again
\* by its repeat event: a poll that can run is not put off for ever.
NextIssue ==
  \/ \E r \in CmdReaders, c \in CmdInputs :
       set_configuration(r, report_interval_ms_[r], c) /\ Untimed
  \/ ReportValue /\ Untimed
  \/ AttitudeUpdate /\ Untimed

InitIssue == InitStepsCmd /\ fused = [valid |-> TRUE, sample |-> 1]

SpecIssue == InitIssue /\ [][NextIssue]_vars

SpecIssueFair ==
  /\ InitIssue
  /\ [][NextIssue]_vars
  /\ WF_vars(ReportValue /\ Untimed)
  /\ WF_vars(AttitudeUpdate /\ Untimed)

\* The tick and the polls of all three readers, one statement per step.
NextTasks ==
  \/ TickReadSensors
  \/ TickRunFusion
  \/ AttitudeBegin
  \/ AttitudeAssign
  \/ AttitudeEmit
  \/ MagCalAssign
  \/ MagCalEmit
  \/ ReportBegin
  \/ ReportReturn

SpecTasks == InitDefault /\ [][NextTasks]_vars

\* The tick, the polls of the scalar and the calibration reader and the
\* calibration output's publish, with command requests arriving in between.
NextFrame ==
  \/ ReadAndProcessSensors /\ Untimed
  \/ \E c \in CmdInputs :
       set_configuration("scalar", report_interval_ms_["scalar"], c)
         /\ Untimed
  \/ ReportValue /\ Untimed
  \/ MagCalUpdate /\ Untimed
  \/ PublishMagCal /\ Untimed

SpecFrame == InitCmd /\ [][NextFrame]_vars

\* The whole program.
Next ==
  \/ ReadAndProcessSensors /\ Untimed
  \/ \E r \in Readers, i \in Intervals, c \in CmdInputs :
       set_configuration(r, i, c) /\ Untimed
  \/ ReportValue /\ Untimed
  \/ AttitudeUpdate /\ Untimed
  \/ MagCalUpdate /\ Untimed
  \/ PublishAttitude /\ Untimed
  \/ PublishMagCal /\ Untimed

Spec == Init /\ [][Next]_vars

\* ===================================================================== claims

\* C1: after the scalar reader's command is set to persist, the first
\* ReportValue() injects "SVMC" exactly once and a further ReportValue()
\* with no set_configuration in between injects nothing.
C1_PersistIssuedOnce ==
  (last.op = "ReportValue" /\ last.requested = 1) =>
    IF last.again THEN last.issued = NoCommand
                  ELSE last.issued = << "SVMC" >>

C1_Witness ==
  /\ last.op = "ReportValue"
  /\ last.requested = 1
  /\ last.again
  /\ nSet["scalar"] = 1
  /\ nIssued["scalar"] = 1

\* C2: a ReportValue() that finds the flag at persist injects exactly
\* "SVMC", at discard exactly "ERMC", at no-op nothing; after every
\* ReportValue() the flag is no-op.
C2_PollMapsCommand ==
  last.op = "ReportValue" =>
    /\ last.pending = 1 => last.issued = << "SVMC" >>
    /\ last.pending = 0 - 1 => last.issued = << "ERMC" >>
    /\ last.pending = 0 => last.issued = NoCommand
    /\ save_mag_cal_["scalar"] = 0

C2_Witness ==
  /\ last.op = "ReportValue"
  /\ last.pending = 0 - 1
  /\ last.issued = << "ERMC" >>
  /\ save_mag_cal_["scalar"] = 0

\* C3: for each reader with a command flag, the commands it has injected
\* never outnumber the persist/discard requests set on it, under every
\* interleaving of set_configuration, polls and ticks.
C3_AtMostOncePerRequest ==
  \A r \in CmdReaders : nIssued[r] <= nSet[r]

C3_Witness ==
  /\ nSet["scalar"] >= 1
  /\ nIssued["scalar"] = nSet["scalar"]
  /\ nSet["attitude"] >= 1
  /\ nIssued["attitude"] = nSet["attitude"]
  /\ last.op \in {"ReportValue", "AttitudeUpdate"}
  /\ last.again

\* C4: AttitudeValues::Update drains the flag as ReportValue() does:
\* persist injects "SVMC", discard injects "ERMC", the flag is no-op after
\* the poll, and a second poll without a new request injects nothing.
C4_AttitudeDrains ==
  last.op = "AttitudeUpdate" =>
    /\ last.pending = 1 => last.issued = << "SVMC" >>
    /\ last.pending = 0 - 1 => last.issued = << "ERMC" >>
    /\ last.again => last.issued = NoCommand
    /\ save_mag_cal_["attitude"] = 0

C4_Witness ==
  /\ last.op = "AttitudeUpdate"
  /\ last.requested = 1
  /\ last.again
  /\ nSet["attitude"] = 1
  /\ nIssued["attitude"] = 1

\* C5 (as stated): a persist or discard request supplied to the calibration
\* reader is injected by its next MagCalValues::Update.
C5_MagCalDrainsRequest ==
  (last.op = "MagCalUpdate" /\ ~last.again) =>
    /\ last.requested = 1 => last.issued = << "SVMC" >>
    /\ last.requested = 0 - 1 => last.issued = << "ERMC" >>

\* C5 (amended): MagCalValues::Update never injects a command, also when a
\* persist or discard request was supplied in the reader's configuration.
C5_MagCalNeverIssues ==
  /\ nIssued["magcal"] = 0
  /\ last.op = "MagCalUpdate" => last.issued = NoCommand

C5_Witness ==
  /\ last.op = "MagCalUpdate"
  /\ IsCommand(last.requested)
  /\ ~last.again

\* The Parameter Store query that each value type names (the enumeration's
\* documentation; yaw is the heading, as in AttitudeValues::Update).
QueryOf(t) ==
  CASE t \in {"kCompassHeading", "kYaw"} -> "GetHeadingRadians"
    [] t = "kRoll" -> "GetRollRadians"
    [] t = "kPitch" -> "GetPitchRadians"
    [] t = "kAccelerationX" -> "GetAccelXMPerSS"
    [] t = "kAccelerationY" -> "GetAccelYMPerSS"
    [] t = "kAccelerationZ" -> "GetAccelZMPerSS"
    [] t = "kRateOfTurn" -> "GetTurnRateRadPerS"
    [] t = "kRateOfPitch" -> "GetPitchRateRadPerS"
    [] t = "kRateOfRoll" -> "GetRollRateRadPerS"
    [] t = "kTemperature" -> "GetTemperatureK"
    [] t = "kMagCalFitInUse" -> "GetMagneticFitError"
    [] t = "kMagCalFitTrial" -> "GetMagneticFitErrorTrial"
    [] t = "kMagCalAlgorithmSolver" -> "GetMagneticCalSolver"
    [] t = "kMagInclination" -> "GetMagneticInclinationRad"
    [] t = "kMagFieldMagnitude" -> "GetMagneticBMag"
    [] t = "kMagFieldMagnitudeTrial" -> "GetMagneticBMagTrial"
    [] t = "kMagNoiseCovariance" -> "GetMagneticNoiseCovariance"

\* C6: for every value type that names a Parameter Store query (kYaw
\* included), ReportValue() returns the value that query reports at the
\* moment of the poll.
C6_ReturnsStoreValue ==
  (last.op = "ReportValue" /\ value_type_ # "kAttitude") =>
    ret = Get(QueryOf(value_type_), fused)

\* C7: a published attitude message carries yaw, pitch and roll as null
\* when the record is invalid and as the record's numbers when it is valid.
C7_AttitudeNullWhenInvalid ==
  last.op = "PublishAttitude" =>
    IF sk_attitude.is_data_valid
      THEN /\ msg_attitude.yaw = JsonNumber(sk_attitude.yaw)
           /\ msg_attitude.pitch = JsonNumber(sk_attitude.pitch)
           /\ msg_attitude.roll = JsonNumber(sk_attitude.roll)
      ELSE /\ msg_attitude.yaw = JsonNull
           /\ msg_attitude.pitch = JsonNull
           /\ msg_attitude.roll = JsonNull

C7_Witness ==
  /\ last.op = "PublishAttitude"
  /\ ~sk_attitude.is_data_valid
  /\ sk_attitude.yaw # 0
  /\ msg_attitude.yaw = JsonNull

\* C8: a calibration record published with validity false carries incl,
\* bmagt and noise as null, and ferr, bmag and solver as the record's
\* numbers.
C8_MagCalInvalidFields ==
  (last.op = "PublishMagCal" /\ ~sk_magcal.is_data_valid) =>
    /\ msg_magcal.incl = JsonNull
    /\ msg_magcal.bmagt = JsonNull
    /\ msg_magcal.noise = JsonNull
    /\ msg_magcal.ferr = JsonNumber(sk_magcal.cal_fit_error)
    /\ msg_magcal.bmag = JsonNumber(sk_magcal.mag_field_magnitude)
    /\ msg_magcal.solver = JsonNumber(sk_magcal.mag_solver)

C8_Witness ==
  /\ last.op = "PublishMagCal"
  /\ ~sk_magcal.is_data_valid
  /\ sk_magcal.magnetic_inclination # 0
  /\ sk_magcal.cal_fit_error # 0
  /\ msg_magcal.incl = JsonNull

\* C9 (as stated): a calibration record published with validity false
\* carries ferrt as the record's number.
C9_TrialFitErrorNumeric ==
  (last.op = "PublishMagCal" /\ ~sk_magcal.is_data_valid) =>
    msg_magcal.ferrt = JsonNumber(sk_magcal.cal_fit_error_trial)

\* C9 (amended): the trial fit error is a freshness-only field: published
\* with validity false ferrt is null, with validity true it is the
\* record's number.
C9_TrialFitErrorNull ==
  last.op = "PublishMagCal" =>
    msg_magcal.ferrt =
      IF sk_magcal.is_data_valid
        THEN JsonNumber(sk_magcal.cal_fit_error_trial)
        ELSE JsonNull

C9_Witness ==
  /\ last.op = "PublishMagCal"
  /\ ~sk_magcal.is_data_valid
  /\ sk_magcal.cal_fit_error_trial # 0
  /\ msg_magcal.ferrt = JsonNull

C11_TicksAndPublishes ==
  (now = 1000 /\ Quiescent /\ fusion_task /\ kFusionIntervalMs = 25)
    => /\ count["fusion"] = 40
       /\ \A r \in {"attitude", "magcal"} :
            report_interval_ms_[r] = 100 => count[r] = 10
       /\ period["scalar"] = 100 => count["scalar"] = 10

C11_Witness ==
  /\ now = 1000
  /\ Quiescent
  /\ period["fusion"] = 25
  /\ period["attitude"] = 100
  /\ count["fusion"] = 40
  /\ count["attitude"] = 10
  /\ "attitude" \in notified

\* C12: a value a poll obtains from the store and returns or emits is the
\* value of the fused state the most recent ReadAndProcessSensors left
\* behind, never that of an earlier tick.
C12_PollReadsLatestTick ==
  /\ (last.op = "ReportValue" /\ calls # NoQuery)
       => ret = Get(calls[1], fused)
  /\ last.op = "AttitudeUpdate"
       => attitude_ = AttitudeOf(fused) /\ sk_attitude = AttitudeOf(fused)
  /\ last.op = "MagCalUpdate"
       => mag_cal_ = MagCalOf(fused) /\ sk_magcal = MagCalOf(fused)

\* The scalar reader polled before the latest tick, the attitude reader
\* after it: the attitude record carries the new cycle's values.
C12_Witness ==
  /\ last.op = "AttitudeUpdate"
  /\ polled["scalar"]
  /\ fresh = [r \in Readers |-> IF r = "attitude" THEN 1 ELSE 0]
  /\ value_type_ = "kCompassHeading"
  /\ ret = 0
  /\ sk_attitude.is_data_valid
  /\ sk_attitude.yaw = Reading("GetHeadingRadians", 1)

\* C13: the validity and the numeric fields of an emitted composite record
\* come from one fusion cycle: no tick falls between the first and the last
\* store query of the poll that emitted it.
C13_RecordFromOneCycle ==
  /\ last.op = "AttitudeEmit"
       => /\ Cardinality(cycles["attitude"]) = 1
          /\ \E f \in FusedStates : sk_attitude = AttitudeOf(f)
  /\ last.op = "MagCalEmit"
       => /\ Cardinality(cycles["magcal"]) = 1
          /\ \E f \in FusedStates : sk_magcal = MagCalOf(f)

\* A record emitted after the second tick, all of it that tick's.
C13_Witness ==
  /\ last.op = "AttitudeEmit"
  /\ cycles["attitude"] = {MaxTicks}
  /\ sk_attitude.is_data_valid
  /\ sk_attitude = AttitudeOf(fused)
  /\ sk_attitude.pitch = Reading("GetPitchRadians", 1)

\* C14: after a failed sensor installation ReadAndProcessSensors keeps
\* being invoked at its fixed interval.
C14_DriverRunsAfterFailure ==
  (~installed /\ Quiescent) => count["fusion"] = now \div kFusionIntervalMs

\* C15: a failed installation is reported exactly once, at startup, no
\* later tick or poll installs again, and the readers keep being polled
\* and keep emitting at their intervals.
C15_FailureReportedOnce ==
  ~installed
    => /\ log_ = << "Trouble installing sensors." >>
       /\ installs = 1
       /\ Quiescent
            => /\ \A r \in {"attitude", "magcal"} :
                    /\ count[r] = now \div report_interval_ms_[r]
                    /\ count[r] > 0 => r \in notified
               /\ count["scalar"] = now \div period["scalar"]

C15_Witness ==
  /\ ~installed
  /\ now = 1000
  /\ Quiescent
  /\ count["attitude"] = 10
  /\ count["scalar"] = 10
  /\ last.op = "MagCalUpdate"
  /\ {"attitude", "magcal"} \subseteq notified
  /\ Len(log_) = 1

\* C16: every reader constructed with report interval R, the scalar reader
\* like the two composite readers, is polled every R milliseconds.
C16_PolledAtOwnInterval ==
  Quiescent
    => \A r \in Readers : count[r] = now \div report_interval_ms_[r]

\* C17: after the configuration has supplied a new report interval, the
\* reader's polls follow one another at the new interval.
C17_PollsAtNewInterval ==
  (last.op = "AttitudeUpdate" /\ last.again)
    => gap["attitude"] = report_interval_ms_["attitude"]

\* C18: a poll of a reader that follows another poll of the same reader,
\* with no fusion tick in between and no command pending, returns or emits
\* the same value as that earlier poll.
C18_RepeatPollSameValue ==
  [][/\ (last'.op = "ReportValue" /\ fresh["scalar"] > 0
           /\ save_mag_cal_["scalar"] = 0)
          => ret' = ret
     /\ (last'.op = "AttitudeUpdate" /\ fresh["attitude"] > 0
           /\ save_mag_cal_["attitude"] = 0)
          => sk_attitude' = sk_attitude
     /\ (last'.op = "MagCalUpdate" /\ fresh["magcal"] > 0)
          => sk_magcal' = sk_magcal]_vars

\* The second poll of the scalar reader since the tick, with a value to
\* repeat.
C18_Witness ==
  /\ last.op = "ReportValue"
  /\ fresh["scalar"] = 2
  /\ fused.sample = 1
  /\ ret = Get("GetRollRadians", fused)
  /\ value_type_ = "kRoll"

\* C19: the validity flag of an emitted composite record is the answer of
\* the IsDataValid query made in the poll that emitted it.
C19_ValidityFromSamePoll ==
  /\ last.op = "AttitudeUpdate"
       => /\ "IsDataValid" \in { calls[i] : i \in 1..Len(calls) }
          /\ sk_attitude.is_data_valid = IsDataValid(fused)
  /\ last.op = "MagCalUpdate"
       => /\ "IsDataValid" \in { calls[i] : i \in 1..Len(calls) }
          /\ sk_magcal.is_data_valid = IsDataValid(fused)

\* The attitude record emitted valid, then a tick that invalidates the
\* data, then the calibration record emitted invalid.
C19_Witness ==
  /\ last.op = "MagCalUpdate"
  /\ ~IsDataValid(fused)
  /\ ~sk_magcal.is_data_valid
  /\ sk_attitude.is_data_valid
  /\ fresh["attitude"] = 0
  /\ fresh["magcal"] = 1

\* C20: a poll of a scalar reader whose value type has no case in the
\* switch (kYaw, kAttitude) returns 0.0, makes no value query of the store,
\* and still issues the pending command and resets the flag.
C20_UnmatchedReturnsZero ==
  (last.op = "ReportValue" /\ value_type_ \in {"kYaw", "kAttitude"})
    => /\ ret = 0
       /\ calls = NoQuery
       /\ last.issued = CommandFor(last.pending)
       /\ save_mag_cal_["scalar"] = 0

C20_Witness ==
  /\ last.op = "ReportValue"
  /\ value_type_ = "kAttitude"
  /\ fused.sample = 1
  /\ last.pending = 1
  /\ last.issued = << "SVMC" >>
  /\ ret = 0
  /\ calls = NoQuery

\* C21: an offset-correction stage followed by a stage with the exact
\* negative offset returns the original input, for every input of the full
\* turn.
C21_OffsetRoundTrip ==
  (last.op = "set_input_Offsets"
     /\ offset_["normalise"] = 0 - offset_["mounting"])
    => emitted["normalise"] = chain_input

\* An input the first stage wraps around the end of the turn.
C21_Witness ==
  /\ last.op = "set_input_Offsets"
  /\ offset_["mounting"] = 3
  /\ offset_["normalise"] = 0 - 3
  /\ chain_input = AngleSteps - 1
  /\ emitted["mounting"] = 2
  /\ emitted["normalise"] = AngleSteps - 1

\* C22: the lookup table queried at the input of an entry returns that
\* entry's output; queried midway between two adjacent entries it returns
\* the arithmetic mean of their outputs.
C22_EntryAndMidpoint ==
  last.op = "set_input_Curve"
    => /\ \A e \in samples_ :
            e.input = chain_input
              => interpolated.num = e.output * interpolated.den
       /\ \A e1, e2 \in samples_ :
            (/\ e1.input < e2.input
             /\ ~ \E e \in samples_ : e1.input < e.input /\ e.input < e2.input
             /\ 2 * chain_input = e1.input + e2.input)
              => 2 * interpolated.num
                   = (e1.output + e2.output) * interpolated.den

\* A midpoint query whose answer is not a whole number.
C22_Witness ==
  /\ last.op = "set_input_Curve"
  /\ samples_ = { [input |-> 0, output |-> 0], [input |-> 4, output |-> 3] }
  /\ chain_input = 2
  /\ 2 * interpolated.num = 3 * interpolated.den

\* C23: every tick is one ReadSensors followed by one RunFusion: RunFusion
\* runs only straight after ReadSensors, and the step after ReadSensors is
\* RunFusion, never a statement of a reader's poll.
C23_ReadThenFuse ==
  [][/\ last'.op = "RunFusion" => last.op = "ReadSensors"
     /\ last.op = "ReadSensors" => last'.op = "RunFusion"]_vars

\* The second tick completed, with an attitude poll behind it.
C23_Witness ==
  /\ last.op = "RunFusion"
  /\ count["fusion"] = 2
  /\ EventLoopFree
  /\ "attitude" \in notified

\* C24: in a poll of the scalar reader or of the attitude reader, every
\* value or validity query of the store is made after the pending command
\* has been issued and the flag reset.
C24_CommandBeforeQueries ==
  [][\A r \in CmdReaders :
       (last'.reader = r /\ calls' # NoQuery)
         => /\ save_mag_cal_[r] = 0
            /\ pc[r] > 0
            /\ last.op \in {"ReportBegin", "AttitudeBegin"}
                 => last.issued = CommandFor(last.pending)]_vars

\* The attitude poll of a discard request, past its validity query, the
\* command already injected.
C24_Witness ==
  /\ last.op = "AttitudeAssign"
  /\ calls = << "IsDataValid" >>
  /\ requested["attitude"] = 0 - 1
  /\ nIssued["attitude"] = 1
  /\ save_mag_cal_["attitude"] = 0
  /\ nIssued["scalar"] = 1

\* C25: a command set on a reader and still in place at the reader's next
\* poll is injected by that poll; with the polls scheduled fairly, every
\* command that is not overwritten is eventually injected.
C25_IssuedAtNextPoll ==
  /\ [](\A r \in CmdReaders :
          (last.op \in {"ReportValue", "AttitudeUpdate"} /\ last.reader = r
             /\ ~last.again /\ IsCommand(last.requested))
            => /\ last.pending = last.requested
               /\ last.issued = CommandFor(last.requested))
  /\ \A r \in CmdReaders, j \in 0..MaxSets :
       (IsCommand(save_mag_cal_[r]) /\ nSet[r] = j)
         ~> \/ last.reader = r /\ last.issued # NoCommand
            \/ nSet[r] > j
            \/ ~IsCommand(requested[r])

\* The second command of the attitude reader injected, the first one of
\* the scalar reader still to come.
C25_Witness ==
  /\ last.op = "AttitudeUpdate"
  /\ last.issued = << "ERMC" >>
  /\ nIssued["attitude"] = 1
  /\ nSet["attitude"] = 1
  /\ save_mag_cal_["scalar"] = 1
  /\ nIssued["scalar"] = 0

\* C26: ticks and polls run to completion on one scheduler: at most one of
\* them is in progress at any time, and a tick or a poll starts only when
\* none is in progress, the reader's own earlier poll included.
C26_RunToCompletion ==
  /\ [](Cardinality({t \in Tasks : pc[t] # 0}) <= 1)
  /\ [][((last'.op \in {"ReadSensors", "ReportBegin", "AttitudeBegin"})
            \/ (last'.op = "MagCalAssign" /\ pc'["magcal"] = 2))
           => EventLoopFree]_vars

\* The attitude reader's second poll starts after a tick that itself
\* started after the reader's first poll had ended.
C26_Witness ==
  /\ last.op = "AttitudeBegin"
  /\ last.again
  /\ count["fusion"] = 1
  /\ fresh["attitude"] = 0
  /\ polled["magcal"]
  /\ pc = [t \in Tasks |-> IF t = "attitude" THEN 1 ELSE 0]

C28_FieldsUnscaled ==
  /\ last.op = "AttitudeUpdate"
       => /\ sk_attitude.yaw = Get("GetHeadingRadians", fused)
          /\ sk_attitude.roll = Get("GetRollRadians", fused)
          /\ sk_attitude.pitch = Get("GetPitchRadians", fused)
  /\ last.op = "MagCalUpdate"
       => /\ sk_magcal.cal_fit_error = Get("GetMagneticFitError", fused)
          /\ sk_magcal.cal_fit_error_trial
               = Get("GetMagneticFitErrorTrial", fused)
          /\ sk_magcal.mag_field_magnitude = Get("GetMagneticBMag", fused)
          /\ sk_magcal.mag_field_magnitude_trial
               = Get("GetMagneticBMagTrial", fused)
          /\ sk_magcal.mag_noise_covariance
               = Get("GetMagneticNoiseCovariance", fused)
          /\ sk_magcal.mag_solver = Get("GetMagneticCalSolver", fused)
          /\ sk_magcal.magnetic_inclination
               = Get("GetMagneticInclinationRad", fused)

\* C28, amended: the fields equal the store's values unscaled except the
\* two fit errors of the calibration record, which are the store's values
\* divided by 100; the scalar reader returns the fit errors undivided.
C28_FitErrorsScaled ==
  /\ last.op = "AttitudeUpdate"
       => /\ sk_attitude.yaw = Get("GetHeadingRadians", fused)
          /\ sk_attitude.roll = Get("GetRollRadians", fused)
          /\ sk_attitude.pitch = Get("GetPitchRadians", fused)
  /\ last.op = "MagCalUpdate"
       => /\ 100 * sk_magcal.cal_fit_error = Get("GetMagneticFitError", fused)
          /\ 100 * sk_magcal.cal_fit_error_trial
               = Get("GetMagneticFitErrorTrial", fused)
          /\ sk_magcal.mag_field_magnitude = Get("GetMagneticBMag", fused)
          /\ sk_magcal.mag_field_magnitude_trial
               = Get("GetMagneticBMagTrial", fused)
          /\ sk_magcal.mag_noise_covariance
               = Get("GetMagneticNoiseCovariance", fused)
          /\ sk_magcal.mag_solver = Get("GetMagneticCalSolver", fused)
          /\ sk_magcal.magnetic_inclination
               = Get("GetMagneticInclinationRad", fused)
  /\ (last.op = "ReportValue" /\ value_type_ = "kMagCalFitInUse")
       => ret = Get("GetMagneticFitError", fused)
  /\ (last.op = "ReportValue" /\ value_type_ = "kMagCalFitTrial")
       => ret = Get("GetMagneticFitErrorTrial", fused)

\* After one tick the scalar reader returned the trial fit error and the
\* calibration record, emitted next, carries a hundredth of it.
C28_Witness ==
  /\ last.op = "MagCalUpdate"
  /\ value_type_ = "kMagCalFitTrial"
  /\ fresh["scalar"] = 1
  /\ fused.sample = 1
  /\ ret = Reading("GetMagneticFitErrorTrial", 1)
  /\ ret # 0
  /\ 100 * sk_magcal.cal_fit_error_trial = ret
  /\ sk_magcal.mag_field_magnitude = Reading("GetMagneticBMag", 1)

\* C29: every field of an emitted composite record was written during the
\* poll that emitted it, whether the data are valid or not: the poll assigns
\* each field of the record once, in order, before it emits, so the fields
\* assigned so far, and at the emit all of them, hold what the store
\* returns in this poll and nothing from an earlier one.
C29_AllFieldsWrittenInPoll ==
  /\ DOMAIN attitude_
       = {AttitudeSteps[i].field : i \in 1..Len(AttitudeSteps)}
  /\ DOMAIN mag_cal_ = {MagCalSteps[i].field : i \in 1..Len(MagCalSteps)}
  /\ \A i \in 1..Len(AttitudeSteps) :
       (i < pc["attitude"] \/ last.op = "AttitudeEmit")
         => /\ attitude_[AttitudeSteps[i].field]
                 = Assigned(AttitudeSteps[i], fused)
            /\ last.op = "AttitudeEmit"
                 => sk_attitude[AttitudeSteps[i].field]
                      = Assigned(AttitudeSteps[i], fused)
  /\ \A i \in 1..Len(MagCalSteps) :
       (i < pc["magcal"] \/ last.op = "MagCalEmit")
         => /\ mag_cal_[MagCalSteps[i].field]
                 = Assigned(MagCalSteps[i], fused)
            /\ last.op = "MagCalEmit"
                 => sk_magcal[MagCalSteps[i].field]
                      = Assigned(MagCalSteps[i], fused)

\* The attitude record emitted after the second tick, which left the data
\* invalid: all of it is this poll's, while the calibration record still
\* shows the valid, different readings of the first tick.
C29_Witness ==
  /\ last.op = "AttitudeEmit"
  /\ count["fusion"] = 2
  /\ cycles["attitude"] = {2}
  /\ fused = [valid |-> FALSE, sample |-> 0]
  /\ sk_attitude = AttitudeOf(fused)
  /\ cycles["magcal"] = {1}
  /\ sk_magcal = MagCalOf([valid |-> TRUE, sample |-> 1])

\* C30: each poll of a composite reader emits exactly one record, valid or
\* not: the poll ends with its emit and in no other way, the emit hands the
\* record just assembled to the output, and the output receives a record
\* in no other step.
C30_OneRecordPerPoll ==
  /\ [](
       /\ last.op = "AttitudeEmit"
            => ("attitude" \in notified /\ sk_attitude = attitude_)
       /\ last.op = "MagCalEmit"
            => ("magcal" \in notified /\ sk_magcal = mag_cal_))
  /\ [][
       /\ (pc["attitude"] # 0 /\ pc'["attitude"] = 0)
            <=> (last'.op = "AttitudeEmit"
                   /\ pc["attitude"] = Len(AttitudeSteps) + 1)
       /\ (pc["magcal"] # 0 /\ pc'["magcal"] = 0)
            <=> (last'.op = "MagCalEmit"
                   /\ pc["magcal"] = Len(MagCalSteps) + 1)
       /\ (sk_attitude' # sk_attitude \/ "attitude" \in notified' \ notified)
            => last'.op = "AttitudeEmit"
       /\ (sk_magcal' # sk_magcal \/ "magcal" \in notified' \ notified)
            => last'.op = "MagCalEmit"
     ]_vars

\* The calibration reader's second poll after a tick that left the data
\* invalid has emitted its record, the attitude reader's first poll is
\* still to come.
C30_Witness ==
  /\ last.op = "MagCalEmit"
  /\ fresh["magcal"] = 2
  /\ ~sk_magcal.is_data_valid
  /\ fused = [valid |-> FALSE, sample |-> 1]
  /\ sk_magcal = MagCalOf(fused)
  /\ "attitude" \notin notified

\* C31: the interval of the sampling driver's tick is 1000 / FUSION_HZ
\* milliseconds, truncated to a whole number, from its registration on:
\* whatever report intervals the readers are created with, it never changes
\* and consecutive ticks are that far apart.
C31_TickIntervalFixed ==
  /\ [](fusion_task
          => (/\ period["fusion"] * FUSION_HZ <= 1000
              /\ 1000 < (period["fusion"] + 1) * FUSION_HZ
              /\ count["fusion"] >= 2 => gap["fusion"] = period["fusion"]))
  /\ [][period'["fusion"] = period["fusion"]]_vars

\* The fourth tick, 25 ms after the third, with the attitude and the scalar
\* reader created at 4000 ms and the calibration reader, at 100 ms, polled.
C31_Witness ==
  /\ last.op = "ReadAndProcessSensors"
  /\ fusion_task
  /\ report_interval_ms_["attitude"] = SlowReportIntervalMs
  /\ period["scalar"] = SlowReportIntervalMs
  /\ count["magcal"] = 1
  /\ count["fusion"] = 4
  /\ gap["fusion"] = 25
  /\ now = 100

\* C32: the value type of a reader is the one it was constructed with: no
\* tick, command request or poll changes it, and every poll makes the store
\* query of that one type.
C32_ValueTypeFixed ==
  [][/\ value_type_' = value_type_
     /\ last'.op = "ReportValue" => calls' = SwitchQuery(value_type_)]_vars

\* A pitch reader polled again, after a tick and after a poll that issued
\* a command: it still asks for the pitch.
C32_Witness ==
  /\ last.op = "ReportValue"
  /\ last.again
  /\ value_type_ = "kPitch"
  /\ nIssued["scalar"] = 1
  /\ fused.sample = 1
  /\ calls = << "GetPitchRadians" >>
  /\ ret = Reading("GetPitchRadians", 1)

\* C33: the command flags belong to their readers: a poll of one reader
\* leaves the flag and the issued commands of the other as they were, and a
\* command is issued for a reader only by that reader's own poll, from that
\* reader's own flag.
C33_FlagsPerReader ==
  [][\A r \in CmdReaders :
       /\ (last'.op \in {"ReportValue", "AttitudeUpdate"} /\ last'.reader # r)
            => (save_mag_cal_'[r] = save_mag_cal_[r]
                  /\ nIssued'[r] = nIssued[r])
       /\ nIssued'[r] # nIssued[r]
            => (last'.op \in {"ReportValue", "AttitudeUpdate"}
                  /\ last'.reader = r
                  /\ last'.issued = CommandFor(save_mag_cal_[r]))
       /\ (save_mag_cal_'[r] # save_mag_cal_[r]
             /\ last'.op \in {"ReportValue", "AttitudeUpdate"})
            => last'.reader = r
    ]_vars

\* The attitude reader's poll has issued its persist command while the
\* discard request set on the scalar reader, not polled yet, is still
\* pending.
C33_Witness ==
  /\ last.op = "AttitudeUpdate"
  /\ last.issued = << "SVMC" >>
  /\ nIssued["attitude"] = 1
  /\ save_mag_cal_["scalar"] = 0 - 1
  /\ requested["scalar"] = 0 - 1
  /\ ~polled["scalar"]
  /\ nIssued["scalar"] = 0

\* C34: however many requests were set on a reader since its last poll,
\* the poll issues at most one command, the one for the value set last;
\* what was set before it is never delivered.
C34_LastRequestWins ==
  [][\A r \in CmdReaders :
       (last'.op \in {"ReportValue", "AttitudeUpdate"} /\ last'.reader = r)
         => (/\ Len(last'.issued) <= 1
             /\ nIssued'[r] = nIssued[r] + Len(last'.issued)
             /\ ~polled[r] => last'.issued = CommandFor(requested[r])
             /\ polled[r] => last'.issued = NoCommand)
    ]_vars

\* Two requests were set on the scalar reader before its poll, the second
\* a discard: the poll issued one command, "ERMC".
C34_Witness ==
  /\ last.op = "ReportValue"
  /\ ~last.again
  /\ nSet["scalar"] = 2
  /\ nIssued["scalar"] = 1
  /\ last.requested = 0 - 1
  /\ last.issued = << "ERMC" >>
  /\ save_mag_cal_["scalar"] = 0

\* C35: a poll that finds the flag at a value other than 1 and -1 issues
\* no command and leaves the flag at 0; nothing is logged and the poll
\* returns or emits the store's values as usual.
C35_OtherValuesDropped ==
  \A r \in CmdReaders :
    (last.op \in {"ReportValue", "AttitudeUpdate"} /\ last.reader = r
       /\ ~IsCommand(last.pending))
      => (/\ last.issued = NoCommand
          /\ save_mag_cal_[r] = 0
          /\ log_ = InstallReport(installed)
          /\ r = "scalar" => ret = ReportSwitch(value_type_, fused)
          /\ r = "attitude" => sk_attitude = AttitudeOf(fused))

\* The attitude reader polled with its flag at 2: nothing was issued, the
\* flag is back at 0 and the record of the current readings was emitted.
C35_Witness ==
  /\ last.op = "AttitudeUpdate"
  /\ last.pending = 2
  /\ last.issued = NoCommand
  /\ nIssued["attitude"] = 0
  /\ save_mag_cal_["attitude"] = 0
  /\ fused.sample = 1
  /\ sk_attitude = AttitudeOf(fused)

C37_SerialiseReadOnly ==
  /\ [](
       /\ last.op = "PublishAttitude"
            => msg_attitude = as_signalk_Attitude(sk_attitude)
       /\ last.op = "PublishMagCal"
            => msg_magcal = as_signalk_MagCal(sk_magcal))
  /\ [][
       /\ last'.op \in {"PublishAttitude", "PublishMagCal"}
            => (sk_attitude' = sk_attitude /\ sk_magcal' = sk_magcal
                  /\ notified' = notified)
       /\ (last'.op = "PublishAttitude"
             /\ msg_attitude = as_signalk_Attitude(sk_attitude))
            => msg_attitude' = msg_attitude
       /\ (last'.op = "PublishMagCal"
             /\ msg_magcal = as_signalk_MagCal(sk_magcal))
            => msg_magcal' = msg_magcal
     ]_vars

\* The attitude output serialised once more after the calibration output:
\* both messages are those of the stored records, the attitude's valid.
C37_Witness ==
  /\ last.op = "PublishAttitude"
  /\ sk_attitude.is_data_valid
  /\ sk_attitude.yaw = Reading("GetHeadingRadians", 1)
  /\ msg_attitude = as_signalk_Attitude(sk_attitude)
  /\ msg_attitude # EmptyMessage
  /\ "magcal" \in notified
  /\ msg_magcal = as_signalk_MagCal(sk_magcal)
  /\ msg_magcal # EmptyMessage

\* C38: throttlePrint_ changes only in a poll of a kCompassHeading reader,
\* which adds exactly one to it; polls of every other value type, ticks and
\* command requests leave it alone, and what a poll returns and issues is
\* decided by the value type, the fused state and the flag, whatever the
\* counter holds.
C38_ThrottleCounterInert ==
  [][
    /\ throttlePrint_' # throttlePrint_
         => (last'.op = "ReportValue" /\ value_type_ = "kCompassHeading")
    /\ last'.op = "ReportValue"
         => (/\ throttlePrint_' = throttlePrint_
                  + (IF value_type_ = "kCompassHeading" THEN 1 ELSE 0)
             /\ ret' = ReportSwitch(value_type_, fused)
             /\ last'.issued = CommandFor(save_mag_cal_["scalar"]))
  ]_vars

\* The second poll of a heading reader: the counter is at 2, the poll
\* returned the heading and an earlier poll issued the requested command.
C38_Witness ==
  /\ last.op = "ReportValue"
  /\ value_type_ = "kCompassHeading"
  /\ throttlePrint_ = 2
  /\ fused.sample = 1
  /\ ret = Reading("GetHeadingRadians", 1)
  /\ nIssued["scalar"] = 1

====
